---- MODULE Spec2Model ----
(***************************************************************************)
(* A model of cazy_webscraper: the class/family crawl scheduler of         *)
(* get_cazy_data (scraper/cazy_webscraper.py), the download-size guard     *)
(* check_download_size, and the record filter of get_pdb_accessions        *)
(* (scraper/expand/get_pdb_structures/get_pdb_structures.py).              *)
(*                                                                         *)
(* Strings whose characters matter (class, family, taxonomy names) are     *)
(* sequences of one-character strings.                                     *)
(***************************************************************************)
EXTENDS Integers, Sequences, FiniteSets, TLC

(***************************************************************************)
(* Bounds of the model.                                                    *)
(***************************************************************************)
\* args.retries ranges over 0..MaxRetries
MaxRetries == 1
\* class visits of the scheduler loop that are explored in one run
MaxVisits == 5
\* longest list of families under one key of the configuration of check_download_size
MaxFamilies == 6
\* longest list config_dict['classes'] of check_download_size
MaxClasses == 3
\* longest list excluded_classes of check_download_size
MaxExcluded == 4
\* longest query result of get_pdb_accessions
MaxRows == 2
\* longest work queue explored when no history is recorded
MaxQueue == 4
\* largest value of a class's tries explored when no history is recorded
MaxTries == 3

(***************************************************************************)
(* Names.                                                                  *)
(***************************************************************************)
GH == <<"G", "H">>
PL == <<"P", "L">>
GH5 == <<"G", "H", "5">>
gh5 == <<"g", "h", "5">>
GH5_1 == <<"G", "H", "5", "_", "1">>
PL1 == <<"P", "L", "1">>

URL == <<"u", "r", "l">>

Classes == {GH, PL}
Families == {GH5, GH5_1, PL1}
\* what a line of the connection-failure log is about
LogEntries == Classes \cup Families \cup {URL}

\* A Python value that may be None: [none |-> TRUE] or [none |-> FALSE, val |-> v].
None == [none |-> TRUE]
Some(v) == [none |-> FALSE, val |-> v]

VARIABLES
    retries,            \* args.retries
    subfamilies,        \* args.subfamilies
    config_dict,        \* None, or class name -> (None or list of family names)
    cazy_classes,       \* the part of the list cazy_classes the loop has not reached
    cazy_class,         \* the class the loop body is working on
    tries,              \* cazy_class.tries, per class
    failed_families,    \* cazy_class.failed_families, per class: list of [fam, n]
    class_families,     \* the families of the current pass
    idx,                \* position of the family loop in class_families
    pc,                 \* "class", "families", "done", "bound"
    connection_failures,\* connection-failure log: entry -> number of lines
    written,            \* what the latest family step wrote to each log channel
    returned,           \* the error lists the latest family scrape returned
    track,              \* whether the history below is recorded
    visits,             \* history: class visits so far
    fetches,            \* history: get_cazy_family_urls calls per class
    fetched_ok,         \* history: successful get_cazy_family_urls calls per class
    scrapes,            \* history: scrapes per family
    clean_scrapes,      \* history: scrapes per family with retry_scrape False
    abandoned,          \* history: families deleted from failed_families at the ceiling
    scraped_in_pass     \* history: families scraped in the current pass

schedVars == <<retries, subfamilies, config_dict, cazy_classes, cazy_class, tries,
               failed_families, class_families, idx, pc, connection_failures,
               written, returned, track, visits, fetches, fetched_ok, scrapes,
               clean_scrapes, abandoned, scraped_in_pass>>

VARIABLES
    complete_download,  \* args.complete_download
    excluded_classes,   \* check_download_size: None or the list of excluded classes
    size_config,        \* check_download_size: config_dict (None, or key -> None or list)
    size_pc,            \* "idle", "call", "returned", "TypeError"
    entry_download      \* history: args.complete_download on entry

sizeVars == <<complete_download, excluded_classes, size_config, size_pc, entry_download>>

VARIABLES
    taxonomy_filters,   \* get_pdb_accessions: None or a set of strings
    kingdoms,           \* None or a set of kingdom names
    ec_filters,         \* None or a set of EC numbers
    pdb_query_results,  \* the rows (Pdb, Cazyme, Taxonomy, Kingdom, EC) of the query
    row,                \* position of the loop in pdb_query_results
    pdb_accessions,     \* the list pdb_accessions
    pdb_result,         \* the returned list(set(pdb_accessions)), as a set
    pdb_pc,             \* "idle", "loop", "returned"
    kept                \* history: positions of the rows that were appended

pdbVars == <<taxonomy_filters, kingdoms, ec_filters, pdb_query_results, row,
             pdb_accessions, pdb_result, pdb_pc, kept>>

VARIABLES
    gbk_taxonomy_filters,   \* extract_accessions(_and_dates): taxonomy_filters
    genbank_query,          \* the rows of the query handed to the function
    gbk_function,           \* which of the two functions is running
    item,                   \* position of the loop in genbank_query
    accessions,             \* the accessions collected so far, in order
    gbk_pc,                 \* "idle", "loop", "returned"
    gbk_kept                \* history: positions of the rows that were collected

gbkVars == <<gbk_taxonomy_filters, genbank_query, gbk_function, item, accessions,
             gbk_pc, gbk_kept>>

VARIABLES
    main_pc,                \* main: the statement that runs next, or how it ended
    session,                \* "none", or what open_db_session returned: "Session", "dict"
    run_log                 \* the number of log records in the database

mainVars == <<main_pc, session, run_log>>

VARIABLES
    cazy_families,          \* table families: rows of CazyFamily
    taxs,                   \* table taxs: rows of Taxonomy
    cazymes,                \* table cazymes: rows of Cazyme
    genbanks,               \* table genbanks: rows of Genbank
    cazymes_genbanks,       \* table cazymes_genbanks: rows of Cazymes_Genbanks
    linker,                 \* the four linker tables, by name: rows (cazyme_id, id)
    integrity_errors,       \* history: inserts the database refused
    statements,             \* history: operations run on the store
    store_pc                \* "idle", "open"

storeVars == <<cazy_families, taxs, cazymes, genbanks, cazymes_genbanks, linker,
               integrity_errors, statements, store_pc>>

VARIABLES
    cazy_dict,              \* the CAZy dict: protein -> list of family annotations
    config_data,            \* {"classes": [...], "families": [...]}
    protein_list,           \* sequences_for_proteins_from_dict: protein_list; a list
                            \* without duplicates in the order of list(set), held as a set
    ncbi_queries,           \* history: runs of query_entrez.get_sequences_for_dict
    dict_pc,                \* "idle", "call", "qualified", "batches", "returned",
                            \* "TypeError"
    dict_result             \* the value sequences_for_proteins_from_dict returned

dictVars == <<cazy_dict, config_data, protein_list, ncbi_queries, dict_pc, dict_result>>

VARIABLES
    entrez_retries,         \* entrez_retry: args.retries
    entrez_func,            \* what a call of entrez_func can do: a set of outcomes
    entrez_tries,           \* tries
    record,                 \* record: None or what entrez_func returned
    entrez_calls,           \* history: calls of entrez_func
    entrez_raised,          \* history: calls of entrez_func that raised IOError
    entrez_pc,              \* "idle", "loop", "try", "returned", "raised"
    entrez_result           \* the returned value

entrezVars == <<entrez_retries, entrez_func, entrez_tries, record, entrez_calls, entrez_raised,
                entrez_pc, entrez_result>>

VARIABLES
    accessions_list,        \* get_user_accessions: the accessions of the user
    user_session,           \* the Genbank table behind session: accession -> stored state
    accession,              \* position of the loop in accessions_list
    all_query_results,      \* the list all_query_results
    user_genbank_query,     \* the local genbank_query: unbound (None) or a list of rows
    user_warning,           \* TRUE when the "No GenBank records" warning was logged
    user_pc,                \* "idle", "loop", "returned", "UnboundLocalError"
    user_result             \* the returned list

userVars == <<accessions_list, user_session, accession, all_query_results,
              user_genbank_query, user_warning, user_pc, user_result>>

VARIABLES
    upd_function,           \* get_..._genbank_acc_for_update: "prim" or "all"
    upd_records,            \* the Genbank records the query returns: accession -> state
    genbank_query_no_seq,   \* the accessions of the records without sequence
    genbank_query_with_seq, \* the accessions of the records with a sequence
    upd_pc,                 \* "idle", "call", "split", "returned", "AttributeError"
    upd_result              \* the returned accessions

updVars == <<upd_function, upd_records, genbank_query_no_seq, genbank_query_with_seq,
             upd_pc, upd_result>>

VARIABLES
    fam_function,           \* class/family query: "pdb" or "genbank"
    fam_config,             \* config_dict: the classes and the families it names
    fam_i,                  \* position of the running loop in its list
    query_class,            \* pdb_query_class / genbank_query_class
    query_family,           \* pdb_query_family / genbank_query_family
    fam_pc,                 \* "idle", "classes", "families", "returned"
    fam_result              \* what the function returned

famVars == <<fam_function, fam_config, fam_i, query_class, query_family, fam_pc,
             fam_result>>

VARIABLES
    add_table,              \* get_sequences_add_to_db: the rows of the table genbanks
    add_accessions,         \* the list accessions
    ncbi_records,           \* the ids of the records SeqIO.parse yields, in order
    add_i,                  \* position of the loop in ncbi_records
    add_pc,                 \* "idle", "loop", "returned"
    add_entry               \* history: the table and the list on entry

addVars == <<add_table, add_accessions, ncbi_records, add_i, add_pc, add_entry>>

VARIABLES
    open_args,              \* open_db_session: args and what exists on disk
    open_pc,                \* "idle", "call", "returned", "exit 1", or the error raised
    open_session            \* the returned session

openVars == <<open_args, open_pc, open_session>>

\* the other functions of scraper.expand and open_db_session
otherVars == <<updVars, famVars, addVars, openVars>>

expandVars == <<gbkVars, storeVars, dictVars, entrezVars, userVars, otherVars>>

vars == <<schedVars, sizeVars, pdbVars, mainVars, expandVars>>

\* what a step of get_cazy_data leaves alone
notSched == <<sizeVars, pdbVars, mainVars, expandVars>>
\* what a step of check_download_size leaves alone
notSize == <<schedVars, pdbVars, mainVars, expandVars>>
\* what a step of get_pdb_accessions leaves alone
notPdb == <<schedVars, sizeVars, mainVars, expandVars>>
\* what a step of main outside check_download_size leaves alone
notMain == <<schedVars, sizeVars, pdbVars, expandVars>>
\* what a step of extract_accessions or extract_accessions_and_dates leaves alone
notGbk == <<schedVars, sizeVars, pdbVars, mainVars,
             storeVars, dictVars, entrezVars, userVars, otherVars>>
\* what an operation on the store leaves alone
notStore == <<schedVars, sizeVars, pdbVars, mainVars,
             gbkVars, dictVars, entrezVars, userVars, otherVars>>
\* what a step of sequences_for_proteins_from_dict leaves alone
notDict == <<schedVars, sizeVars, pdbVars, mainVars,
             gbkVars, storeVars, entrezVars, userVars, otherVars>>
\* what a step of entrez_retry leaves alone
notEntrez == <<schedVars, sizeVars, pdbVars, mainVars,
             gbkVars, storeVars, dictVars, userVars, otherVars>>
\* what a step of get_prim_genbank_acc_for_update or get_all_genbank_acc_for_update
\* leaves alone
notUpd == <<schedVars, sizeVars, pdbVars, mainVars, gbkVars, storeVars, dictVars,
            entrezVars, userVars, famVars, addVars, openVars>>
\* what a step of a class/family query function leaves alone
notFam == <<schedVars, sizeVars, pdbVars, mainVars, gbkVars, storeVars, dictVars,
            entrezVars, userVars, updVars, addVars, openVars>>
\* what a step of get_sequences_add_to_db leaves alone
notAdd == <<schedVars, sizeVars, pdbVars, mainVars, gbkVars, storeVars, dictVars,
            entrezVars, userVars, updVars, famVars, openVars>>
\* what open_db_session leaves alone
notOpen == <<schedVars, sizeVars, pdbVars, mainVars, gbkVars, storeVars, dictVars,
             entrezVars, userVars, updVars, famVars, addVars>>
\* what a step of get_user_accessions leaves alone
notUser == <<schedVars, sizeVars, pdbVars, mainVars,
             gbkVars, storeVars, dictVars, entrezVars, otherVars>>

(***************************************************************************)
(* The crawler's answers (scraper.crawler): what the scheduler receives.   *)
(***************************************************************************)
\* crawler.get_cazy_classes: the CazyClass objects, in page order
CazyClassList == <<GH, PL>>

\* a CazyClass object as the crawler builds it: no attempt made, no failed family
NewCazyClass == [tries |-> 0, failed_families |-> <<>>]

\* crawler.get_cazy_family_urls, on success: the families of a class; subfamilies
\* are listed only when subfamily retrieval is enabled
FamilyUrls(class, subfams) ==
    IF class = GH
    THEN IF subfams THEN <<GH5, GH5_1>> ELSE <<GH5>>
    ELSE <<PL1>>

\* the three error lists a family scrape returns (whether each holds an error):
\* a scrape reports nothing, or an error of one kind
NoErrors == [conn |-> FALSE, sql |-> FALSE, fmt |-> FALSE]
ErrorLists ==
    {NoErrors,
     [conn |-> TRUE, sql |-> FALSE, fmt |-> FALSE],
     [conn |-> FALSE, sql |-> TRUE, fmt |-> FALSE],
     [conn |-> FALSE, sql |-> FALSE, fmt |-> TRUE]}

(***************************************************************************)
(* Python helpers.                                                         *)
(***************************************************************************)
\* str.find("_"): index (from 0) of the first underscore, or -1
RECURSIVE FindFrom(_, _)
FindFrom(name, i) ==
    IF i > Len(name) THEN -1
    ELSE IF name[i] = "_" THEN i - 1
    ELSE FindFrom(name, i + 1)

FindUnderscore(name) == FindFrom(name, 1)

\* x in list
InList(x, list) == \E i \in 1..Len(list) : list[i] = x

\* list(d.keys()) of the insertion-ordered dict d
Keys(d) == [i \in 1..Len(d) |-> d[i].fam]

HasKey(d, f) == \E i \in 1..Len(d) : d[i].fam = f

\* d[f]
Value(d, f) == d[CHOOSE i \in 1..Len(d) : d[i].fam = f].n

RECURSIVE DelKey(_, _)
DelKey(d, f) ==
    IF d = <<>> THEN <<>>
    ELSE IF Head(d).fam = f THEN DelKey(Tail(d), f)
    ELSE <<Head(d)>> \o DelKey(Tail(d), f)

(***************************************************************************)
(* get_cazy_data: the pieces of the loop body.                             *)
(***************************************************************************)
ClassCeilingReachedEarly(t) == t = retries

\* line 493: the class has used up its attempts
ClassCeilingReached(t) == t = retries + 1

\* line 559 / 640: the family has used up its attempts
FamilyCeilingReached(n) == n = retries + 1

\* lines 553-556 / 634-637: d[family] += 1, or d[family] = 1 on KeyError
CountFailure(d, f) ==
    IF HasKey(d, f)
    THEN [i \in 1..Len(d) |-> IF d[i].fam = f THEN [fam |-> f, n |-> d[i].n + 1] ELSE d[i]]
    ELSE Append(d, [fam |-> f, n |-> 1])

\* line 510: no family restriction applies to the class
Unrestricted(class) ==
    IF config_dict.none THEN TRUE ELSE config_dict.val[class].none

\* lines 587-590: the name that is looked up in the configuration
NameCheck(name) ==
    IF subfamilies /\ FindUnderscore(name) # -1
    THEN SubSeq(name, 1, FindUnderscore(name))
    ELSE name

\* line 592: the family is one of those the configuration names for the class
Selected(class, name) ==
    InList(NameCheck(name), config_dict.val[class].val)

\* one more line about entry e in the log
Logged(log, e) == [log EXCEPT ![e] = @ + 1]

\* the logs and the history are write-only: they are recorded when track holds
Hist(new, old) == IF track THEN new ELSE old

\* the part of the run that is explored
WithinBounds ==
    IF track
    THEN visits < MaxVisits
    ELSE Len(cazy_classes) <= MaxQueue /\ tries[Head(cazy_classes)] < MaxTries

(***************************************************************************)
(* The configurations a run starts from.                                   *)
(***************************************************************************)
\* config_dict: None, or GH restricted to one list of names and PL unrestricted
ConfigChoices ==
    {None} \cup
    {Some([c \in Classes |-> IF c = GH THEN Some(l) ELSE None]) :
        l \in {<<GH5>>, <<GH5_1>>, <<gh5>>}}

InitSched(t) ==
    /\ retries \in 0..MaxRetries
    /\ subfamilies \in BOOLEAN
    /\ config_dict \in ConfigChoices
    /\ cazy_classes = CazyClassList
    /\ cazy_class = GH
    /\ tries = [c \in Classes |-> NewCazyClass.tries]
    /\ failed_families = [c \in Classes |-> NewCazyClass.failed_families]
    /\ class_families = <<>>
    /\ idx = 1
    /\ pc = "class"
    /\ connection_failures = [e \in LogEntries |-> 0]
    /\ written = NoErrors
    /\ returned = NoErrors
    /\ track = t
    /\ visits = 0
    /\ fetches = [c \in Classes |-> 0]
    /\ fetched_ok = [c \in Classes |-> 0]
    /\ scrapes = [f \in Families |-> 0]
    /\ clean_scrapes = [f \in Families |-> 0]
    /\ abandoned = {}
    /\ scraped_in_pass = {}

\* check_download_size is not running
IdleSize ==
    /\ complete_download = FALSE
    /\ excluded_classes = None
    /\ size_config = Some([classes |-> Some(<<>>), GH |-> None, PL |-> None])
    /\ size_pc = "idle"
    /\ entry_download = FALSE

\* get_pdb_accessions is not running
IdlePdb ==
    /\ taxonomy_filters = None
    /\ kingdoms = None
    /\ ec_filters = None
    /\ pdb_query_results = <<>>
    /\ row = 1
    /\ pdb_accessions = <<>>
    /\ pdb_result = {}
    /\ pdb_pc = "idle"
    /\ kept = {}

\* get_cazy_data is not running
IdleSched ==
    /\ retries = 0
    /\ subfamilies = FALSE
    /\ config_dict = None
    /\ cazy_classes = <<>>
    /\ cazy_class = GH
    /\ tries = [c \in Classes |-> 0]
    /\ failed_families = [c \in Classes |-> <<>>]
    /\ class_families = <<>>
    /\ idx = 1
    /\ pc = "idle"
    /\ connection_failures = [e \in LogEntries |-> 0]
    /\ written = NoErrors
    /\ returned = NoErrors
    /\ track = FALSE
    /\ visits = 0
    /\ fetches = [c \in Classes |-> 0]
    /\ fetched_ok = [c \in Classes |-> 0]
    /\ scrapes = [f \in Families |-> 0]
    /\ clean_scrapes = [f \in Families |-> 0]
    /\ abandoned = {}
    /\ scraped_in_pass = {}

\* main is not running
IdleMain ==
    /\ main_pc = "idle"
    /\ session = "none"
    /\ run_log = 0

\* extract_accessions and extract_accessions_and_dates are not running
IdleGbk ==
    /\ gbk_taxonomy_filters = None
    /\ genbank_query = <<>>
    /\ gbk_function = "extract_accessions"
    /\ item = 1
    /\ accessions = <<>>
    /\ gbk_pc = "idle"
    /\ gbk_kept = {}

\* the linker tables of sql_orm.py, lines 128-165
LinkerTables == {"cazymes_families", "cazymes_ecs", "cazymes_uniprots", "cazymes_pdbs"}

\* no database is open
IdleStore ==
    /\ cazy_families = <<>>
    /\ taxs = <<>>
    /\ cazymes = <<>>
    /\ genbanks = <<>>
    /\ cazymes_genbanks = <<>>
    /\ linker = [t \in LinkerTables |-> <<>>]
    /\ integrity_errors = 0
    /\ statements = 0
    /\ store_pc = "idle"

\* sequences_for_proteins_from_dict is not running
IdleDict ==
    /\ cazy_dict = <<>>
    /\ config_data = [classes |-> <<>>, families |-> <<>>]
    /\ protein_list = {}
    /\ ncbi_queries = 0
    /\ dict_pc = "idle"
    /\ dict_result = None

\* entrez_retry is not running
IdleEntrez ==
    /\ entrez_retries = 0
    /\ entrez_func = {}
    /\ entrez_tries = 0
    /\ record = None
    /\ entrez_calls = 0
    /\ entrez_raised = 0
    /\ entrez_pc = "idle"
    /\ entrez_result = None

\* get_user_accessions is not running
IdleUser ==
    /\ accessions_list = <<>>
    /\ user_session = <<>>
    /\ accession = 1
    /\ all_query_results = <<>>
    /\ user_genbank_query = None
    /\ user_warning = FALSE
    /\ user_pc = "idle"
    /\ user_result = None

\* none of the functions of scraper.expand is running and no database is open
\* neither of the two update queries is running
IdleUpd ==
    /\ upd_function = "prim"
    /\ upd_records = <<>>
    /\ genbank_query_no_seq = {}
    /\ genbank_query_with_seq = {}
    /\ upd_pc = "idle"
    /\ upd_result = {}

\* no class/family query function is running
IdleFam ==
    /\ fam_function = "pdb"
    /\ fam_config = [classes |-> <<>>, families |-> <<>>]
    /\ fam_i = 1
    /\ query_class = None
    /\ query_family = None
    /\ fam_pc = "idle"
    /\ fam_result = None

\* get_sequences_add_to_db is not running
IdleAdd ==
    /\ add_table = <<>>
    /\ add_accessions = <<>>
    /\ ncbi_records = <<>>
    /\ add_i = 1
    /\ add_pc = "idle"
    /\ add_entry = [table |-> <<>>, accessions |-> <<>>]

\* open_db_session is not running on its own
IdleOpen ==
    /\ open_args = <<>>
    /\ open_pc = "idle"
    /\ open_session = None

IdleOther == IdleUpd /\ IdleFam /\ IdleAdd /\ IdleOpen

IdleExpand == IdleGbk /\ IdleStore /\ IdleDict /\ IdleEntrez /\ IdleUser /\ IdleOther

Init == InitSched(TRUE) /\ IdleSize /\ IdlePdb /\ IdleMain /\ IdleExpand

(***************************************************************************)
(* get_cazy_data, lines 471-657: one action per step of the two loops.     *)
(***************************************************************************)
\* lines 485-487: every incorrect URL is written to the connection-failure log
LogIncorrectUrls(log, incorrect_urls) ==
    IF incorrect_urls THEN Logged(log, URL) ELSE log

\* lines 489-502: the family list of the class could not be retrieved
AfterFailedFetch(c, incorrect_urls) ==
    /\ tries' = [tries EXCEPT ![c] = @ + 1]
    /\ IF ClassCeilingReached(tries'[c])
       THEN /\ connection_failures' =
                   Hist(Logged(LogIncorrectUrls(connection_failures, incorrect_urls), c),
                        connection_failures)
            /\ cazy_classes' = Tail(cazy_classes)
       ELSE /\ connection_failures' =
                   Hist(LogIncorrectUrls(connection_failures, incorrect_urls),
                        connection_failures)
            /\ cazy_classes' = Append(Tail(cazy_classes), c)

\* lines 471-502: visit of a class with no failed family; get_cazy_family_urls fails
\* (it then reports no incorrect URL)
FetchFamilyUrlsFails ==
    /\ pc = "class" /\ cazy_classes # <<>> /\ WithinBounds
    /\ failed_families[Head(cazy_classes)] = <<>>
    /\ AfterFailedFetch(Head(cazy_classes), FALSE)
    /\ cazy_class' = Head(cazy_classes)
    /\ visits' = Hist(visits + 1, visits)
    /\ fetches' = Hist([fetches EXCEPT ![Head(cazy_classes)] = @ + 1], fetches)
    /\ UNCHANGED notSched
    /\ UNCHANGED <<retries, subfamilies, config_dict, failed_families, class_families,
                   idx, pc, written, returned, track, fetched_ok, scrapes,
                   clean_scrapes, abandoned, scraped_in_pass>>

\* lines 471-487: visit of a class with no failed family; the family list is retrieved
FetchFamilyUrlsOk ==
    /\ pc = "class" /\ cazy_classes # <<>> /\ WithinBounds
    /\ failed_families[Head(cazy_classes)] = <<>>
    /\ \E incorrect_urls \in BOOLEAN :
          connection_failures' =
              Hist(LogIncorrectUrls(connection_failures, incorrect_urls),
                   connection_failures)
    /\ cazy_class' = Head(cazy_classes)
    /\ cazy_classes' = Tail(cazy_classes)
    /\ class_families' = FamilyUrls(Head(cazy_classes), subfamilies)
    /\ idx' = 1
    /\ pc' = "families"
    /\ visits' = Hist(visits + 1, visits)
    /\ fetches' = Hist([fetches EXCEPT ![Head(cazy_classes)] = @ + 1], fetches)
    /\ fetched_ok' = Hist([fetched_ok EXCEPT ![Head(cazy_classes)] = @ + 1], fetched_ok)
    /\ scraped_in_pass' = {}
    /\ UNCHANGED notSched
    /\ UNCHANGED <<retries, subfamilies, config_dict, tries, failed_families,
                   written, returned, track, scrapes, clean_scrapes, abandoned>>

\* lines 471-475, 504-506: visit of a class with failed families: only they are scraped
RetryFailedFamilies ==
    /\ pc = "class" /\ cazy_classes # <<>> /\ WithinBounds
    /\ failed_families[Head(cazy_classes)] # <<>>
    /\ cazy_class' = Head(cazy_classes)
    /\ cazy_classes' = Tail(cazy_classes)
    /\ class_families' = Keys(failed_families[Head(cazy_classes)])
    /\ idx' = 1
    /\ pc' = "families"
    /\ visits' = Hist(visits + 1, visits)
    /\ scraped_in_pass' = {}
    /\ UNCHANGED notSched
    /\ UNCHANGED <<retries, subfamilies, config_dict, tries, failed_families,
                   connection_failures, written, returned, track, fetches,
                   fetched_ok, scrapes, clean_scrapes, abandoned>>

\* lines 550-561 / 631-642: failed_families of the class after the scrape of f
CountedFailure(d, f, retry_scrape) ==
    IF retry_scrape THEN CountFailure(d, f) ELSE d

\* lines 558-561 / 639-642: the family is deleted from the map and the body left
Dropped(d, f, retry_scrape) ==
    retry_scrape /\ FamilyCeilingReached(Value(CountedFailure(d, f, retry_scrape), f))

\* lines 563-566 / 644-647: the class is appended to the list again
Requeued(d, f, retry_scrape) ==
    /\ ~Dropped(d, f, retry_scrape)
    /\ CountedFailure(d, f, retry_scrape) # <<>>

\* lines 568-576 / 649-657: the error lists that reach the log channels
WrittenErrors(d, f, retry_scrape, errs) ==
    IF Dropped(d, f, retry_scrape) THEN NoErrors ELSE errs

NextFamilyBreak(d, f, retry_scrape) ==
    IF Dropped(d, f, retry_scrape) THEN Len(class_families) + 1 ELSE idx + 1

\* lines 561, 576 / 642, 657: `continue` or the end of the body: the next family
NextFamily(d, f, retry_scrape) == idx + 1

\* lines 515-576 / 596-657: the scrape of family f of class c and what follows it
FamilyStep(c, f, retry_scrape, errs) ==
    /\ failed_families' =
          [failed_families EXCEPT ![c] =
              IF Dropped(@, f, retry_scrape)
              THEN DelKey(CountedFailure(@, f, retry_scrape), f)
              ELSE CountedFailure(@, f, retry_scrape)]
    /\ cazy_classes' =
          IF Requeued(failed_families[c], f, retry_scrape)
          THEN Append(cazy_classes, c)
          ELSE cazy_classes
    /\ written' = Hist(WrittenErrors(failed_families[c], f, retry_scrape, errs), written)
    /\ returned' = Hist(errs, returned)
    /\ connection_failures' =
          Hist(IF WrittenErrors(failed_families[c], f, retry_scrape, errs).conn
               THEN Logged(connection_failures, f)
               ELSE connection_failures,
               connection_failures)
    /\ idx' = NextFamily(failed_families[c], f, retry_scrape)
    /\ scrapes' = Hist([scrapes EXCEPT ![f] = @ + 1], scrapes)
    /\ clean_scrapes' =
          Hist(IF retry_scrape THEN clean_scrapes
               ELSE [clean_scrapes EXCEPT ![f] = @ + 1], clean_scrapes)
    /\ abandoned' =
          Hist(IF Dropped(failed_families[c], f, retry_scrape)
               THEN abandoned \cup {f} ELSE abandoned, abandoned)
    /\ scraped_in_pass' = Hist(scraped_in_pass \cup {f}, scraped_in_pass)
    /\ UNCHANGED notSched
    /\ UNCHANGED <<retries, subfamilies, config_dict, cazy_class, tries, class_families,
                   pc, track, visits, fetches, fetched_ok>>

\* lines 510-576: a family of a class without family restriction is scraped
ScrapeFamily ==
    /\ pc = "families" /\ idx <= Len(class_families)
    /\ Unrestricted(cazy_class)
    /\ \E retry_scrape \in BOOLEAN, errs \in ErrorLists :
          FamilyStep(cazy_class, class_families[idx], retry_scrape, errs)

\* lines 578-657: a family the configuration names is scraped
ScrapeConfiguredFamily ==
    /\ pc = "families" /\ idx <= Len(class_families)
    /\ ~Unrestricted(cazy_class)
    /\ Selected(cazy_class, class_families[idx])
    /\ \E retry_scrape \in BOOLEAN, errs \in ErrorLists :
          FamilyStep(cazy_class, class_families[idx], retry_scrape, errs)

\* lines 592-593: a family the configuration does not name is passed over
SkipFamily ==
    /\ pc = "families" /\ idx <= Len(class_families)
    /\ ~Unrestricted(cazy_class)
    /\ ~Selected(cazy_class, class_families[idx])
    /\ idx' = idx + 1
    /\ UNCHANGED notSched
    /\ UNCHANGED <<retries, subfamilies, config_dict, cazy_classes, cazy_class, tries,
                   failed_families, class_families, pc, connection_failures, written,
                   returned, track, visits, fetches, fetched_ok, scrapes,
                   clean_scrapes, abandoned, scraped_in_pass>>

\* lines 513 / 581: the family loop is over, the class loop goes on
EndOfFamilies ==
    /\ pc = "families" /\ idx > Len(class_families)
    /\ pc' = "class"
    /\ UNCHANGED notSched
    /\ UNCHANGED <<retries, subfamilies, config_dict, cazy_classes, cazy_class, tries,
                   failed_families, class_families, idx, connection_failures, written,
                   returned, track, visits, fetches, fetched_ok, scrapes,
                   clean_scrapes, abandoned, scraped_in_pass>>

\* line 471: the list is exhausted, the class loop ends
EndOfClasses ==
    /\ pc = "class" /\ cazy_classes = <<>>
    /\ pc' = "done"
    /\ UNCHANGED notSched
    /\ UNCHANGED <<retries, subfamilies, config_dict, cazy_classes, cazy_class, tries,
                   failed_families, class_families, idx, connection_failures, written,
                   returned, track, visits, fetches, fetched_ok, scrapes,
                   clean_scrapes, abandoned, scraped_in_pass>>

\* the run leaves the explored part
OutOfBounds ==
    /\ pc = "class" /\ cazy_classes # <<>> /\ ~WithinBounds
    /\ pc' = "bound"
    /\ UNCHANGED notSched
    /\ UNCHANGED <<retries, subfamilies, config_dict, cazy_classes, cazy_class, tries,
                   failed_families, class_families, idx, connection_failures, written,
                   returned, track, visits, fetches, fetched_ok, scrapes,
                   clean_scrapes, abandoned, scraped_in_pass>>

Next ==
    \/ FetchFamilyUrlsFails
    \/ FetchFamilyUrlsOk
    \/ RetryFailedFamilies
    \/ ScrapeFamily
    \/ ScrapeConfiguredFamily
    \/ SkipFamily
    \/ EndOfFamilies
    \/ EndOfClasses
    \/ OutOfBounds

Spec == Init /\ [][Next]_vars

(***************************************************************************)
(* The same loop with neither logs nor history recorded, so that a run     *)
(* that goes round for ever is a cycle of states.  The loop is sequential  *)
(* code: whenever it has a next step it takes it.                          *)
(***************************************************************************)
InitLive == InitSched(FALSE) /\ IdleSize /\ IdlePdb /\ IdleMain /\ IdleExpand

SpecLive == InitLive /\ [][Next]_vars /\ WF_vars(Next)

(***************************************************************************)
(* C3: get_cazy_data always terminates: the class list is eventually       *)
(* drained and the loop over it ends (or the run leaves the explored       *)
(* part).                                                                  *)
(***************************************************************************)
C3_Terminates == <>(pc \in {"done", "bound"})

(***************************************************************************)
(* C4: both retry counters stay within the ceiling: tries of a class is    *)
(* never more than retries + 1, and every counter in failed_families is    *)
(* between 1 and retries.                                                  *)
(***************************************************************************)
C4_CountersWithinCeiling ==
    \A c \in Classes :
        /\ tries[c] <= retries + 1
        /\ \A i \in 1..Len(failed_families[c]) :
              /\ failed_families[c][i].n >= 1
              /\ failed_families[c][i].n <= retries

(***************************************************************************)
(* C1: a class whose family-list fetch fails on every attempt is fetched   *)
(* exactly retries + 1 times in total, is then reported exactly once in    *)
(* the connection-failure log, and is never fetched again.                 *)
(***************************************************************************)
C1_FailingClassFetchedRetriesPlusOne ==
    \A c \in Classes :
        fetched_ok[c] = 0 =>
            /\ fetches[c] <= retries + 1
            /\ fetches[c] = tries[c]
            /\ connection_failures[c] = (IF fetches[c] = retries + 1 THEN 1 ELSE 0)
            /\ fetches[c] = retries + 1 => ~InList(c, cazy_classes)
            /\ pc = "done" => fetches[c] = retries + 1

\* a run has ended in which a class was fetched in vain twice and given up
C1_Witness ==
    /\ pc = "done" /\ retries = 1
    /\ \E c \in Classes :
          fetched_ok[c] = 0 /\ fetches[c] = 2 /\ connection_failures[c] = 1

(***************************************************************************)
(* C2: a family whose scrape reports a retryable failure on every pass is  *)
(* scraped exactly retries + 1 times in total, whatever its siblings do;   *)
(* after that it is out of failed_families and never scraped again.        *)
(***************************************************************************)
C2_FailingFamilyScrapedRetriesPlusOne ==
    \A f \in Families :
        clean_scrapes[f] = 0 =>
            /\ scrapes[f] <= retries + 1
            /\ pc = "done" /\ scrapes[f] > 0 => scrapes[f] = retries + 1

(***************************************************************************)
(* C5: a family whose scrape fails on retries + 1 consecutive passes, and  *)
(* is abandoned, appears exactly once in the connection-failure log over   *)
(* the whole run.                                                          *)
(***************************************************************************)
C5_AbandonedFamilyLoggedOnce ==
    \A f \in Families :
        (pc = "done" /\ f \in abandoned /\ clean_scrapes[f] = 0
            /\ scrapes[f] = retries + 1)
        => connection_failures[f] = 1

(***************************************************************************)
(* C6: each error a family scrape returns is written to its own log        *)
(* channel: none is dropped, none goes to another channel.                 *)
(***************************************************************************)
C6_ErrorsReachTheirChannel == written = returned

(***************************************************************************)
(* C7: families are processed independently within a pass: a failure or    *)
(* abandonment of one family never prevents the remaining families of the  *)
(* list from being scraped in the same pass, and a class whose family-list *)
(* fetch fails never prevents the classes queued after it from being       *)
(* visited.                                                                *)
(***************************************************************************)
\* the family is to be scraped in a pass over class c
Eligible(c, f) == IF Unrestricted(c) THEN TRUE ELSE Selected(c, f)

C7_FamiliesIndependent ==
    /\ [](pc = "families" =>
            scraped_in_pass =
                {class_families[i] :
                    i \in {j \in 1..(idx - 1) : Eligible(cazy_class, class_families[j])}})
    /\ [][pc = "families" /\ pc' # "families" => idx > Len(class_families)]_vars
    /\ [][tries' # tries =>
            /\ pc' = "class"
            /\ Len(cazy_classes') >= Len(cazy_classes) - 1
            /\ \A i \in 1..(Len(cazy_classes) - 1) :
                  cazy_classes'[i] = cazy_classes[i + 1]]_vars

\* PL's fetch has failed, GH queued behind it is visited, and in that pass GH5 is
\* abandoned and GH5_1 is scraped all the same
C7_Witness ==
    /\ retries = 1 /\ tries[PL] = 1
    /\ pc = "families" /\ cazy_class = GH
    /\ class_families = <<GH5, GH5_1>> /\ idx = 3
    /\ GH5 \in abandoned /\ scrapes[GH5] = 2
    /\ scraped_in_pass = {GH5, GH5_1} /\ scrapes[GH5_1] = 2

(***************************************************************************)
(* C8: with an explicit family list for a class, a family is scraped if    *)
(* and only if its name is in the list, except that with subfamily         *)
(* retrieval enabled and only the parent named, a subfamily is matched by  *)
(* the part of its name before the first underscore; every other family is *)
(* skipped.                                                                *)
(***************************************************************************)
C8_Matches(c, name) ==
    \/ InList(name, config_dict.val[c].val)
    \/ /\ subfamilies
       /\ FindUnderscore(name) # -1
       /\ InList(SubSeq(name, 1, FindUnderscore(name)), config_dict.val[c].val)

C8_ScrapedIffNamed ==
    (pc = "families" /\ ~Unrestricted(cazy_class)) =>
        \A i \in 1..(idx - 1) :
            class_families[i] \in scraped_in_pass
                <=> C8_Matches(cazy_class, class_families[i])

(***************************************************************************)
(* check_download_size (scraper/cazy_webscraper.py, lines 361-414).        *)
(***************************************************************************)
\* a list of n names (only the lengths of the lists matter to the function)
NameList(name, n) == [i \in 1..n |-> name]

\* the keys of config_dict, in order
ConfigKeys == <<"classes", "GH", "PL">>

\* config_dict as check_download_size reads it: a dict from the keys to None or a list
SizeConfigs ==
    {Some([classes |-> Some(NameList(GH, nc)), GH |-> gh, PL |-> pl]) :
        nc \in 0..MaxClasses,
        gh \in {None} \cup {Some(NameList(GH5, n)) : n \in 0..MaxFamilies},
        pl \in {None} \cup {Some(NameList(PL1, n)) : n \in 0..1}}

\* lines 393-399: the families of every key but 'classes' whose value is not None
RECURSIVE FamiliesOf(_, _)
FamiliesOf(cfg, k) ==
    IF k > Len(ConfigKeys) THEN <<>>
    ELSE IF ConfigKeys[k] = "classes" THEN FamiliesOf(cfg, k + 1)
    ELSE IF cfg[ConfigKeys[k]].none THEN FamiliesOf(cfg, k + 1)
    ELSE cfg[ConfigKeys[k]].val \o FamiliesOf(cfg, k + 1)

\* line 388: the size of the request is looked at
SizeIsChecked(excluded) ==
    IF excluded.none THEN TRUE ELSE Len(excluded.val) < 4

\* line 401: the request counts as large
LargeRequest(classes, families) ==
    (Len(classes) > 2) \/ ((Len(families) > 5) /\ (Len(classes) >= 2))

InitSize ==
    /\ complete_download \in BOOLEAN
    /\ excluded_classes \in {None} \cup {Some(NameList(PL, n)) : n \in 0..MaxExcluded}
    /\ size_config \in SizeConfigs
    /\ size_pc = "call"
    /\ entry_download = complete_download
    /\ IdleSched /\ IdlePdb /\ IdleMain /\ IdleExpand

\* lines 371-379: the complete download was asked for: warn and return
ReturnCompleteDownload ==
    /\ size_pc = "call" /\ complete_download
    /\ size_pc' = "returned"
    /\ UNCHANGED <<complete_download, excluded_classes, size_config, entry_download>>
    /\ UNCHANGED notSize

\* line 388 false, line 414: four or more classes are excluded: return
ReturnUnchecked ==
    /\ size_pc = "call" /\ ~complete_download
    /\ ~SizeIsChecked(excluded_classes)
    /\ size_pc' = "returned"
    /\ UNCHANGED <<complete_download, excluded_classes, size_config, entry_download>>
    /\ UNCHANGED notSize

\* lines 390-408: a large request: the rate limit is engaged
EngageRateLimit ==
    /\ size_pc = "call" /\ ~complete_download
    /\ SizeIsChecked(excluded_classes)
    /\ LargeRequest(size_config.val.classes.val, FamiliesOf(size_config.val, 1))
    /\ complete_download' = TRUE
    /\ size_pc' = "returned"
    /\ UNCHANGED <<excluded_classes, size_config, entry_download>>
    /\ UNCHANGED notSize

\* line 410: len(families > 15) compares a list with an int: TypeError
RaiseOnFamiliesComparison ==
    /\ size_pc = "call" /\ ~complete_download
    /\ SizeIsChecked(excluded_classes)
    /\ ~LargeRequest(size_config.val.classes.val, FamiliesOf(size_config.val, 1))
    /\ size_pc' = "TypeError"
    /\ UNCHANGED <<complete_download, excluded_classes, size_config, entry_download>>
    /\ UNCHANGED notSize

NextSize ==
    \/ ReturnCompleteDownload
    \/ ReturnUnchecked
    \/ EngageRateLimit
    \/ RaiseOnFamiliesComparison

SpecSize == InitSize /\ [][NextSize]_vars

(***************************************************************************)
(* C9: check_download_size returns with args.complete_download = True      *)
(* whenever the class count is > 2, or the family count is > 5 and the     *)
(* class count is >= 2; for every other configuration it returns normally  *)
(* and leaves args.complete_download as it was on entry.                   *)
(***************************************************************************)
C9_ClassCount == Len(size_config.val.classes.val)

C9_FamilyCount == Len(FamiliesOf(size_config.val, 1))

C9_RateLimitHeuristic ==
    size_pc # "call" =>
        /\ size_pc = "returned"
        /\ IF C9_ClassCount > 2 \/ (C9_FamilyCount > 5 /\ C9_ClassCount >= 2)
           THEN complete_download = TRUE
           ELSE complete_download = entry_download

(***************************************************************************)
(* get_pdb_accessions (get_pdb_structures.py, lines 191-322).              *)
(***************************************************************************)
\* Python values of two types: a str, and a Pdb object of the ORM (identified by
\* its row, here by its accession)
Str(chars) == [type |-> "str", val |-> chars]
PdbObject(acc) == [type |-> "Pdb", pdb_accession |-> acc]

\* x == y in Python: a Pdb object (sql_orm.Pdb defines no __eq__) equals only itself,
\* never a str
PyEq(x, y) == x = y

\* sub in s, for strings
IsSubstring(sub, s) ==
    \E i \in 0..(Len(s) - Len(sub)) : SubSeq(s, i + 1, i + Len(sub)) = sub

\* the rows a query can return: (Pdb, Cazyme, Taxonomy, Kingdom, EC)
Taxonomies ==
    {[genus |-> <<"A">>, species |-> <<"f">>],
     [genus |-> <<"A">>, species |-> <<"n">>],
     [genus |-> <<"B">>, species |-> <<"f">>]}

QueryRows ==
    [pdb : {PdbObject("1ABC"), PdbObject("NA")},
     taxonomy : Taxonomies,
     kingdom : [kingdom : {"Bacteria", "Eukaryota"}],
     ec : [ec_number : {"1.1", "2.2"}]]

QueryResults == UNION {[1..n -> QueryRows] : n \in 0..MaxRows}

\* the filters parse_configuration_for_cazy_database can return
TaxonomyFilterChoices ==
    {None, Some({<<"A">>}), Some({<<"A", " ", "n">>, <<"B">>})}
\* --kingdoms is read as typed (parser_expand_gbk_seqs.py, lines 207-215: type=str,
\* "not case sensitive"), so a kingdom reaches the filter in either spelling
KingdomChoices == {None, Some({"Bacteria"}), Some({"bacteria"})}
EcFilterChoices == {None, Some({"1.1"})}

\* lines 230 / 242 / ...: result[0] == "NA"
ResultIsNA(result) == PyEq(result.pdb, Str(<<"N", "A">>))

\* lines 234-235: some filter is in genus + " " + species
TaxonomyMatches(result) ==
    \E filter \in taxonomy_filters.val :
        IsSubstring(filter, result.taxonomy.genus \o <<" ">> \o result.taxonomy.species)

\* line 245: result[-2].kingdom in kingdoms
KingdomMatches(result) == result.kingdom.kingdom \in kingdoms.val

\* line 256: result[-1].ec_number in ec_filters
EcMatches(result) == result.ec.ec_number \in ec_filters.val

\* the conditions under which each branch appends result[0]
KeepTaxonomy(result) == TaxonomyMatches(result)                       \* 234-236
KeepKingdoms(result) == KingdomMatches(result)                        \* 245-246
KeepEc(result) == EcMatches(result)                                   \* 256-257
KeepTaxonomyKingdomsOr(result) == TaxonomyMatches(result) \/ KingdomMatches(result)
KeepTaxonomyKingdoms(result) ==                                       \* 267-272
    TaxonomyMatches(result) /\ KingdomMatches(result)
KeepTaxonomyEc(result) == TaxonomyMatches(result) /\ EcMatches(result)   \* 282-287
KeepKingdomsEc(result) == KingdomMatches(result) /\ EcMatches(result)    \* 297-301
KeepAll(result) ==                                                    \* 311-319
    TaxonomyMatches(result) /\ KingdomMatches(result) /\ EcMatches(result)

InitPdb ==
    /\ taxonomy_filters \in TaxonomyFilterChoices
    /\ kingdoms \in KingdomChoices
    /\ ec_filters \in EcFilterChoices
    /\ pdb_query_results \in QueryResults
    /\ row = 1
    /\ pdb_accessions = <<>>
    /\ pdb_result = {}
    /\ pdb_pc = "loop"
    /\ kept = {}
    /\ IdleSched /\ IdleSize /\ IdleMain /\ IdleExpand

\* one turn of a `for result in pdb_query_results` loop whose condition is keep
LoopTurn(keep) ==
    /\ pdb_pc = "loop" /\ row <= Len(pdb_query_results)
    /\ IF ~ResultIsNA(pdb_query_results[row]) /\ keep
       THEN /\ pdb_accessions' = Append(pdb_accessions, pdb_query_results[row].pdb)
            /\ kept' = kept \cup {row}
       ELSE UNCHANGED <<pdb_accessions, kept>>
    /\ row' = row + 1
    /\ UNCHANGED <<taxonomy_filters, kingdoms, ec_filters, pdb_query_results,
                   pdb_result, pdb_pc>>
    /\ UNCHANGED notPdb

\* the positions of the rows a list comprehension with condition "NA" != x keeps
NotNA(results) == {i \in 1..Len(results) : ~ResultIsNA(results[i])}

RECURSIVE PdbsOf(_, _, _)
PdbsOf(results, keep, i) ==
    IF i > Len(results) THEN <<>>
    ELSE IF i \in keep THEN <<results[i].pdb>> \o PdbsOf(results, keep, i + 1)
    ELSE PdbsOf(results, keep, i + 1)

\* lines 223-225: no filter: the two list comprehensions
ApplyNoFilters ==
    /\ pdb_pc = "loop" /\ row <= Len(pdb_query_results)
    /\ taxonomy_filters.none /\ kingdoms.none /\ ec_filters.none
    /\ pdb_accessions' = PdbsOf(pdb_query_results, NotNA(pdb_query_results), 1)
    /\ kept' = NotNA(pdb_query_results)
    /\ row' = Len(pdb_query_results) + 1
    /\ UNCHANGED <<taxonomy_filters, kingdoms, ec_filters, pdb_query_results,
                   pdb_result, pdb_pc>>
    /\ UNCHANGED notPdb

\* lines 228-237
TaxonomyOnly ==
    /\ ~taxonomy_filters.none /\ kingdoms.none /\ ec_filters.none
    /\ LoopTurn(KeepTaxonomy(pdb_query_results[row]))

\* lines 240-247
KingdomsOnly ==
    /\ taxonomy_filters.none /\ ~kingdoms.none /\ ec_filters.none
    /\ LoopTurn(KeepKingdoms(pdb_query_results[row]))

\* lines 250-258
EcOnly ==
    /\ taxonomy_filters.none /\ kingdoms.none /\ ~ec_filters.none
    /\ LoopTurn(KeepEc(pdb_query_results[row]))

\* lines 261-273
TaxonomyAndKingdoms ==
    /\ ~taxonomy_filters.none /\ ~kingdoms.none /\ ec_filters.none
    /\ LoopTurn(KeepTaxonomyKingdoms(pdb_query_results[row]))

\* lines 276-288
TaxonomyAndEc ==
    /\ ~taxonomy_filters.none /\ kingdoms.none /\ ~ec_filters.none
    /\ LoopTurn(KeepTaxonomyEc(pdb_query_results[row]))

\* lines 291-302
KingdomsAndEc ==
    /\ taxonomy_filters.none /\ ~kingdoms.none /\ ~ec_filters.none
    /\ LoopTurn(KeepKingdomsEc(pdb_query_results[row]))

\* lines 305-320
AllFilters ==
    /\ ~taxonomy_filters.none /\ ~kingdoms.none /\ ~ec_filters.none
    /\ LoopTurn(KeepAll(pdb_query_results[row]))

\* line 322: return list(set(pdb_accessions))
ReturnAccessions ==
    /\ pdb_pc = "loop" /\ row > Len(pdb_query_results)
    /\ pdb_result' = {pdb_accessions[i] : i \in 1..Len(pdb_accessions)}
    /\ pdb_pc' = "returned"
    /\ UNCHANGED <<taxonomy_filters, kingdoms, ec_filters, pdb_query_results, row,
                   pdb_accessions, kept>>
    /\ UNCHANGED notPdb

NextPdb ==
    \/ ApplyNoFilters
    \/ TaxonomyOnly
    \/ KingdomsOnly
    \/ EcOnly
    \/ TaxonomyAndKingdoms
    \/ TaxonomyAndEc
    \/ KingdomsAndEc
    \/ AllFilters
    \/ ReturnAccessions

SpecPdb == InitPdb /\ [][NextPdb]_vars

(***************************************************************************)
(* C10: for each of the eight combinations of configured / unconfigured    *)
(* taxonomy, kingdom and EC filters, get_pdb_accessions keeps a queried    *)
(* record exactly when it satisfies every configured filter (some taxonomy *)
(* string is a substring of "genus species", the kingdom is a configured   *)
(* kingdom, the EC number is a configured EC number); with no filter it    *)
(* keeps every record.                                                     *)
(***************************************************************************)
C10_Satisfies(result) ==
    /\ taxonomy_filters.none \/
          \E t \in taxonomy_filters.val :
              IsSubstring(t, result.taxonomy.genus \o <<" ">> \o result.taxonomy.species)
    /\ kingdoms.none \/ result.kingdom.kingdom \in kingdoms.val
    /\ ec_filters.none \/ result.ec.ec_number \in ec_filters.val

C11_Lower(s) ==
    CASE s = "Bacteria" -> "bacteria"
      [] s = "Eukaryota" -> "eukaryota"
      [] OTHER -> s

C11_SameKingdom(result) ==
    \E k \in kingdoms.val : C11_Lower(k) = C11_Lower(result.kingdom.kingdom)

C11_KingdomFilterIgnoresCase ==
    (pdb_pc = "returned" /\ ~kingdoms.none /\ taxonomy_filters.none /\ ec_filters.none) =>
        kept = {i \in 1..Len(pdb_query_results) : C11_SameKingdom(pdb_query_results[i])}

(***************************************************************************)
(* extract_accessions and extract_accessions_and_dates                     *)
(* (get_genbank_sequences/from_sql_db/__init__.py, lines 575-621).         *)
(***************************************************************************)
\* a Genbank object of the ORM (sql_orm.Genbank defines no __eq__)
GenbankObject(acc) ==
    [type |-> "Genbank", genbank_accession |-> acc, seq_update_date |-> None]

\* the rows handed to the two functions: item[0] is the Genbank object and item[-1]
\* the object whose genus and species are read
GenbankRows ==
    [genbank : {GenbankObject(<<"W", "P", "1">>), GenbankObject(<<"N", "A">>)},
     taxonomy : Taxonomies]

GenbankQueries == UNION {[1..n -> GenbankRows] : n \in 0..MaxRows}

\* line 590: item[0] != "NA", for the Genbank object item[0]
ItemIsNotNA(it) == ~PyEq(it.genbank, Str(<<"N", "A">>))

\* lines 609, 615: item[0].genbank_accession == "NA"
AccessionIsNA(it) == it.genbank.genbank_accession = <<"N", "A">>

SourceOrganismSpaced(it) == it.taxonomy.genus \o <<" ">> \o it.taxonomy.species

\* lines 591, 617: source_organism = item[-1].genus + item[-1].species
SourceOrganism(it) == it.taxonomy.genus \o it.taxonomy.species

\* lines 592, 618: any(filter in source_organism for filter in taxonomy_filters)
GbkTaxonomyMatches(it) ==
    \E filter \in gbk_taxonomy_filters.val : IsSubstring(filter, SourceOrganism(it))

\* accessions[key] = value, for the insertion-ordered dict accessions
SetItem(d, key, value) ==
    IF \E i \in 1..Len(d) : d[i].key = key
    THEN [i \in 1..Len(d) |-> IF d[i].key = key THEN [key |-> key, value |-> value] ELSE d[i]]
    ELSE Append(d, [key |-> key, value |-> value])

RECURSIVE GenbanksOf(_, _, _)
GenbanksOf(query, keep, i) ==
    IF i > Len(query) THEN <<>>
    ELSE IF i \in keep THEN <<query[i].genbank>> \o GenbanksOf(query, keep, i + 1)
    ELSE GenbanksOf(query, keep, i + 1)

InitGbk ==
    /\ gbk_taxonomy_filters \in TaxonomyFilterChoices
    /\ genbank_query \in GenbankQueries
    /\ gbk_function \in {"extract_accessions", "extract_accessions_and_dates"}
    /\ item = 1
    /\ accessions = <<>>
    /\ gbk_pc = "loop"
    /\ gbk_kept = {}
    /\ IdleStore /\ IdleDict /\ IdleEntrez /\ IdleUser /\ IdleOther
    /\ IdleSched /\ IdleSize /\ IdlePdb /\ IdleMain

\* lines 584-586: no filter: the two list comprehensions, and the return
ExtractAllAccessions ==
    /\ gbk_pc = "loop" /\ gbk_function = "extract_accessions"
    /\ gbk_taxonomy_filters.none
    /\ gbk_kept' = {i \in 1..Len(genbank_query) : ItemIsNotNA(genbank_query[i])}
    /\ accessions' = GenbanksOf(genbank_query, gbk_kept', 1)
    /\ item' = Len(genbank_query) + 1
    /\ gbk_pc' = "returned"
    /\ UNCHANGED <<gbk_taxonomy_filters, genbank_query, gbk_function>>
    /\ UNCHANGED notGbk

\* lines 589-594: one turn of the loop of extract_accessions
ExtractAccession ==
    /\ gbk_pc = "loop" /\ gbk_function = "extract_accessions"
    /\ ~gbk_taxonomy_filters.none
    /\ item <= Len(genbank_query)
    /\ IF ItemIsNotNA(genbank_query[item]) /\ GbkTaxonomyMatches(genbank_query[item])
       THEN /\ accessions' = Append(accessions, genbank_query[item].genbank)
            /\ gbk_kept' = gbk_kept \cup {item}
       ELSE UNCHANGED <<accessions, gbk_kept>>
    /\ item' = item + 1
    /\ UNCHANGED <<gbk_taxonomy_filters, genbank_query, gbk_function, gbk_pc>>
    /\ UNCHANGED notGbk

\* lines 607-611: one turn of the loop of extract_accessions_and_dates, no filter
ExtractAccessionAndDate ==
    /\ gbk_pc = "loop" /\ gbk_function = "extract_accessions_and_dates"
    /\ gbk_taxonomy_filters.none
    /\ item <= Len(genbank_query)
    /\ IF ~AccessionIsNA(genbank_query[item])
       THEN /\ accessions' = SetItem(accessions,
                                     genbank_query[item].genbank.genbank_accession,
                                     genbank_query[item].genbank.seq_update_date)
            /\ gbk_kept' = gbk_kept \cup {item}
       ELSE UNCHANGED <<accessions, gbk_kept>>
    /\ item' = item + 1
    /\ UNCHANGED <<gbk_taxonomy_filters, genbank_query, gbk_function, gbk_pc>>
    /\ UNCHANGED notGbk

\* lines 613-619: one turn of the loop of extract_accessions_and_dates, with a filter
ExtractFilteredAccessionAndDate ==
    /\ gbk_pc = "loop" /\ gbk_function = "extract_accessions_and_dates"
    /\ ~gbk_taxonomy_filters.none
    /\ item <= Len(genbank_query)
    /\ IF ~AccessionIsNA(genbank_query[item]) /\ GbkTaxonomyMatches(genbank_query[item])
       THEN /\ accessions' = SetItem(accessions,
                                     genbank_query[item].genbank.genbank_accession,
                                     genbank_query[item].genbank.seq_update_date)
            /\ gbk_kept' = gbk_kept \cup {item}
       ELSE UNCHANGED <<accessions, gbk_kept>>
    /\ item' = item + 1
    /\ UNCHANGED <<gbk_taxonomy_filters, genbank_query, gbk_function, gbk_pc>>
    /\ UNCHANGED notGbk

\* lines 594, 621: return accessions
ReturnExtracted ==
    /\ gbk_pc = "loop" /\ item > Len(genbank_query)
    /\ gbk_function = "extract_accessions" => ~gbk_taxonomy_filters.none
    /\ gbk_pc' = "returned"
    /\ UNCHANGED <<gbk_taxonomy_filters, genbank_query, gbk_function, item, accessions,
                   gbk_kept>>
    /\ UNCHANGED notGbk

NextGbk ==
    \/ ExtractAllAccessions
    \/ ExtractAccession
    \/ ExtractAccessionAndDate
    \/ ExtractFilteredAccessionAndDate
    \/ ReturnExtracted

SpecGbk == InitGbk /\ [][NextGbk]_vars

(***************************************************************************)
(* C12: the taxonomy filter is one predicate wherever it is applied to     *)
(* persisted records: extract_accessions and extract_accessions_and_dates  *)
(* accept a record under the condition get_pdb_accessions uses, namely     *)
(* that some filter string is a substring of genus + " " + species.        *)
(***************************************************************************)
\* the rows the running function does not drop for their accession
C12_Candidates ==
    {i \in 1..Len(genbank_query) :
        IF gbk_function = "extract_accessions"
        THEN ItemIsNotNA(genbank_query[i])
        ELSE ~AccessionIsNA(genbank_query[i])}

\* the condition of get_pdb_accessions (lines 233-234), under the filters of this call
C12_PdbCondition(it) ==
    \E filter \in gbk_taxonomy_filters.val : IsSubstring(filter, SourceOrganismSpaced(it))

C12_OneTaxonomyPredicate ==
    (gbk_pc = "returned" /\ ~gbk_taxonomy_filters.none) =>
        gbk_kept = {i \in C12_Candidates : C12_PdbCondition(genbank_query[i])}

(***************************************************************************)
(* main (cazy_webscraper.py, lines 122-240).                               *)
(***************************************************************************)
InitMain ==
    /\ main_pc = "open_db_session"
    /\ session = "none"
    /\ run_log = 0
    /\ complete_download \in BOOLEAN
    /\ excluded_classes \in {None} \cup {Some(NameList(PL, n)) : n \in 0..MaxExcluded}
    /\ size_config \in SizeConfigs
    /\ size_pc = "idle"
    /\ entry_download = complete_download
    /\ IdleSched /\ IdlePdb /\ IdleExpand

\* line 149: open_db_session returns a database session (lines 254, 305, 327, 331)
\* or the dict of a JSON output (line 285)
OpenDbSession ==
    /\ main_pc = "open_db_session"
    /\ session' \in {"Session", "dict"}
    /\ main_pc' = "check_download_size"
    /\ UNCHANGED run_log
    /\ UNCHANGED notMain

\* line 149: open_db_session ends the program (sys.exit(1), lines 273 and 313)
OpenDbSessionExits ==
    /\ main_pc = "open_db_session"
    /\ main_pc' = "SystemExit"
    /\ UNCHANGED <<session, run_log>>
    /\ UNCHANGED notMain

\* lines 153-167: the configuration is parsed and check_download_size is called
CallCheckDownloadSize ==
    /\ main_pc = "check_download_size" /\ size_pc = "idle"
    /\ size_pc' = "call"
    /\ main_pc' = "in check_download_size"
    /\ UNCHANGED <<complete_download, excluded_classes, size_config, entry_download>>
    /\ UNCHANGED <<session, run_log>>
    /\ UNCHANGED <<schedVars, pdbVars, expandVars>>

\* line 167: check_download_size returned args
CheckDownloadSizeReturned ==
    /\ main_pc = "in check_download_size" /\ size_pc = "returned"
    /\ main_pc' = "log_scrape_in_db"
    /\ UNCHANGED <<session, run_log>>
    /\ UNCHANGED notMain

\* line 167: the TypeError of check_download_size is not caught: main ends with it
CheckDownloadSizeRaised ==
    /\ main_pc = "in check_download_size" /\ size_pc = "TypeError"
    /\ main_pc' = "TypeError"
    /\ UNCHANGED <<session, run_log>>
    /\ UNCHANGED notMain

\* lines 180-191: the log is added to the database, unless the output is a dict
LogScrapeInDb ==
    /\ main_pc = "log_scrape_in_db"
    /\ run_log' = IF session # "dict" THEN run_log + 1 ELSE run_log
    /\ main_pc' = "get_cazy_data"
    /\ UNCHANGED session
    /\ UNCHANGED notMain

\* lines 194-205: get_cazy_data is called with ten arguments; it has eleven
\* parameters without default (lines 417-429, limit_rate): TypeError before its body
CallGetCazyData ==
    /\ main_pc = "get_cazy_data"
    /\ main_pc' = "TypeError"
    /\ UNCHANGED <<session, run_log>>
    /\ UNCHANGED notMain

NextMain ==
    \/ OpenDbSession
    \/ OpenDbSessionExits
    \/ CallCheckDownloadSize
    \/ NextSize
    \/ CheckDownloadSizeReturned
    \/ CheckDownloadSizeRaised
    \/ LogScrapeInDb
    \/ CallGetCazyData

SpecMain == InitMain /\ [][NextMain]_vars

(***************************************************************************)
(* C13: an invocation of main that writes to a database writes exactly one *)
(* run-log record describing the filter configuration, and writes it       *)
(* before get_cazy_data starts; no further record is written afterwards.   *)
(***************************************************************************)
C13_OneRunLogRecord ==
    session = "Session" =>
        /\ main_pc \in {"get_cazy_data", "TypeError"} => run_log = 1
        /\ run_log <= 1

(***************************************************************************)
(* The relational store (sql_orm.py, lines 128-408) and the ingestion of   *)
(* one protein into it (sql_interface.add_protein_to_db).                  *)
(***************************************************************************)
\* operations on the store that are explored in one run
MaxStatements == 3
\* ids of the EC, UniProt and PDB rows a linker row can point to
MaxEntities == 2

\* the tables as one value
Store ==
    [taxs |-> taxs, families |-> cazy_families, cazymes |-> cazymes, genbanks |-> genbanks,
     cazymes_genbanks |-> cazymes_genbanks, linker |-> linker, errors |-> integrity_errors]

\* Column(Integer, primary_key=True): the id the database gives the next row of a
\* table from which no row is deleted
NextId(rows) == Len(rows) + 1

\* the positions of the rows of a table that satisfy a filter
Query(rows, Filter(_)) == {i \in 1..Len(rows) : Filter(rows[i])}

\* .first() of a query
First(positions) == CHOOSE i \in positions : \A j \in positions : i <= j

NoPrimaryKey(rows, new_row) == FALSE

\* PrimaryKeyConstraint("cazyme_id", ...): the row's key is already in the table
PrimaryKeyViolated(rows, new_row) ==
    \E i \in 1..Len(rows) : rows[i].cazyme_id = new_row.cazyme_id /\ rows[i].id = new_row.id

\* INSERT of a row into linker table t: refused (IntegrityError) on a duplicate key
InsertLinker(db, t, new_row) ==
    IF PrimaryKeyViolated(db.linker[t], new_row)
    THEN [db EXCEPT !.errors = @ + 1]
    ELSE [db EXCEPT !.linker[t] = Append(@, new_row)]

\* the Taxonomy rows of a (genus, species) pair
FindTaxonomy(db, genus, species) ==
    Query(db.taxs, LAMBDA r : r.genus = genus /\ r.species = species)

AddTaxonomyAlways(db, genus, species) ==
    [db EXCEPT !.taxs = Append(@, [taxonomy_id |-> NextId(@), genus |-> genus,
                                    species |-> species])]

\* resolve or create the Taxonomy row of (genus, species)
AddTaxonomy(db, genus, species) ==
    IF FindTaxonomy(db, genus, species) # {}
    THEN db
    ELSE [db EXCEPT !.taxs = Append(@, [taxonomy_id |-> NextId(@), genus |-> genus,
                                         species |-> species])]

\* the CazyFamily rows of a (family, subfamily) pair
FindFamily(db, fam) ==
    Query(db.families, LAMBDA r : r.family = fam.family /\ r.subfamily = fam.subfamily)

\* resolve or create the CazyFamily row, and link the CAZyme to it unless it is linked
AddCazyFamily(db, cazyme_id, fam) ==
    LET with_fam == IF FindFamily(db, fam) # {}
                    THEN db
                    ELSE [db EXCEPT !.families =
                             Append(@, [family_id |-> NextId(@), family |-> fam.family,
                                        subfamily |-> fam.subfamily])]
        family_id == with_fam.families[First(FindFamily(with_fam, fam))].family_id
        link == [cazyme_id |-> cazyme_id, id |-> family_id]
    IN  IF PrimaryKeyViolated(with_fam.linker["cazymes_families"], link)
        THEN with_fam
        ELSE InsertLinker(with_fam, "cazymes_families", link)

\* the Genbank rows of an accession
FindGenbank(db, acc) == Query(db.genbanks, LAMBDA r : r.genbank_accession = acc)

\* the Cazymes_Genbanks rows that link a CAZyme to a Genbank row
FindLink(db, cazyme_id, genbank_id) ==
    Query(db.cazymes_genbanks,
          LAMBDA r : r.cazyme_id = cazyme_id /\ r.genbank_id = genbank_id)

\* the Genbank row of acc, created when there is none
WithGenbank(db, acc) ==
    IF FindGenbank(db, acc) # {}
    THEN db
    ELSE [db EXCEPT !.genbanks = Append(@, [genbank_id |-> NextId(@),
                                             genbank_accession |-> acc])]

NewLink(db, cazyme_id, genbank_id, primary) ==
    [db EXCEPT !.cazymes_genbanks =
        Append(@, [link_id |-> NextId(@), cazyme_id |-> cazyme_id,
                   genbank_id |-> genbank_id, primary |-> primary])]

AddGenbankAlways(db, cazyme_id, acc, primary) ==
    LET with_gbk == WithGenbank(db, acc)
        genbank_id == with_gbk.genbanks[First(FindGenbank(with_gbk, acc))].genbank_id
    IN  NewLink(with_gbk, cazyme_id, genbank_id, primary)

\* link the CAZyme to the accession, with the given flag, unless it is linked to it
AddGenbank(db, cazyme_id, acc, primary) ==
    LET with_gbk == WithGenbank(db, acc)
        genbank_id == with_gbk.genbanks[First(FindGenbank(with_gbk, acc))].genbank_id
    IN  IF FindLink(with_gbk, cazyme_id, genbank_id) # {}
        THEN with_gbk
        ELSE NewLink(with_gbk, cazyme_id, genbank_id, primary)

RECURSIVE AddNonprimaryGbkAccessions(_, _, _)
AddNonprimaryGbkAccessions(db, cazyme_id, accs) ==
    IF accs = <<>> THEN db
    ELSE AddNonprimaryGbkAccessions(AddGenbank(db, cazyme_id, Head(accs), FALSE),
                                    cazyme_id, Tail(accs))

\* the CAZymes whose primary GenBank accession is acc
CazymesOfPrimary(db, acc) ==
    {db.cazymes_genbanks[i].cazyme_id :
        i \in Query(db.cazymes_genbanks,
                    LAMBDA r : /\ r.primary
                               /\ \E g \in FindGenbank(db, acc) :
                                      db.genbanks[g].genbank_id = r.genbank_id)}

\* a new CAZyme with its primary GenBank accession
AddNewProteinToDb(db, cazyme_name, genus, species, primary_genbank) ==
    LET taxonomy_id == db.taxs[First(FindTaxonomy(db, genus, species))].taxonomy_id
        cazyme_id == NextId(db.cazymes)
        with_cazyme == [db EXCEPT !.cazymes =
                           Append(@, [cazyme_id |-> cazyme_id, cazyme_name |-> cazyme_name,
                                      taxonomy_id |-> taxonomy_id])]
    IN  AddGenbank(with_cazyme, cazyme_id, primary_genbank, TRUE)

\* the ingestion of one protein row: the CAZyme is the one its primary GenBank
\* accession already names, or a new one
AddProteinToDb(db, cazyme_name, fam, genus, species, primary_genbank, gbk_nonprimary) ==
    LET with_tax == AddTaxonomy(db, genus, species)
        known == CazymesOfPrimary(with_tax, primary_genbank)
        with_cazyme == IF known = {}
                       THEN AddNewProteinToDb(with_tax, cazyme_name, genus, species,
                                              primary_genbank)
                       ELSE with_tax
        cazyme_id == IF known = {} THEN NextId(with_tax.cazymes) ELSE First(known)
    IN  AddNonprimaryGbkAccessions(AddCazyFamily(with_cazyme, cazyme_id, fam),
                                   cazyme_id, gbk_nonprimary)

\* the protein rows that are ingested
FamilyAnnotations ==
    {[family |-> "GH5", subfamily |-> None], [family |-> "GH5", subfamily |-> Some("GH5_1")]}
Species == {"bar", "baz"}
GenbankAccessions == {"ABC1.1", "DEF2.2"}

InitStore ==
    /\ cazy_families = <<>>
    /\ taxs = <<>>
    /\ cazymes = <<>>
    /\ genbanks = <<>>
    /\ cazymes_genbanks = <<>>
    /\ linker = [t \in LinkerTables |-> <<>>]
    /\ integrity_errors = 0
    /\ statements = 0
    /\ store_pc = "open"
    /\ IdleGbk /\ IdleDict /\ IdleEntrez /\ IdleUser /\ IdleOther
    /\ IdleSched /\ IdleSize /\ IdlePdb /\ IdleMain

\* the tables become those of db
Stored(db) ==
    /\ taxs' = db.taxs
    /\ cazy_families' = db.families
    /\ cazymes' = db.cazymes
    /\ genbanks' = db.genbanks
    /\ cazymes_genbanks' = db.cazymes_genbanks
    /\ linker' = db.linker
    /\ integrity_errors' = db.errors

\* one protein row is ingested
IngestProtein ==
    /\ store_pc = "open" /\ statements < MaxStatements
    /\ \E fam \in FamilyAnnotations, species \in Species, primary_genbank \in GenbankAccessions :
         \E gbk_nonprimary \in {<<>>} \cup {<<a>> : a \in GenbankAccessions \ {primary_genbank}} :
            Stored(AddProteinToDb(Store, "ProtA", fam, "Foo", species, primary_genbank,
                                  gbk_nonprimary))
    /\ statements' = statements + 1
    /\ UNCHANGED store_pc
    /\ UNCHANGED notStore

\* a row is appended to one of the relationships of a CAZyme that go through a
\* linker table (families, ecs, uniprots, pdbs) and the session is flushed
AppendToRelationship ==
    /\ store_pc = "open" /\ statements < MaxStatements
    /\ \E t \in LinkerTables, c \in 1..Len(cazymes), id \in 1..MaxEntities :
         Stored(InsertLinker(Store, t, [cazyme_id |-> cazymes[c].cazyme_id, id |-> id]))
    /\ statements' = statements + 1
    /\ UNCHANGED store_pc
    /\ UNCHANGED notStore

NextStore ==
    \/ IngestProtein
    \/ AppendToRelationship

SpecStore == InitStore /\ [][NextStore]_vars

(***************************************************************************)
(* C14: natural keys stay unique in the store: after any sequence of       *)
(* ingestions no two CazyFamily rows have the same (family, subfamily)     *)
(* pair and no two Taxonomy rows the same (genus, species) pair; an        *)
(* ingestion adds a row only for a pair that has none, so a repeated       *)
(* ingestion leaves the counts unchanged.                                  *)
(***************************************************************************)
C14_Unique(rows, Key(_)) ==
    \A i, j \in 1..Len(rows) : Key(rows[i]) = Key(rows[j]) => i = j

C14_KeysOf(rows, Key(_)) == {Key(rows[i]) : i \in 1..Len(rows)}

C14_FamilyKey(r) == <<r.family, r.subfamily>>

C14_TaxonomyKey(r) == <<r.genus, r.species>>

C14_NaturalKeysUnique ==
    /\ [](C14_Unique(cazy_families, C14_FamilyKey) /\ C14_Unique(taxs, C14_TaxonomyKey))
    /\ [][/\ C14_KeysOf(taxs', C14_TaxonomyKey) = C14_KeysOf(taxs, C14_TaxonomyKey)
              => taxs' = taxs
          /\ C14_KeysOf(cazy_families', C14_FamilyKey) = C14_KeysOf(cazy_families, C14_FamilyKey)
              => cazy_families' = cazy_families]_vars

\* two proteins of one organism and one family were ingested: two CAZymes, one
\* Taxonomy row, one CazyFamily row
C14_Witness ==
    /\ Len(cazymes) = 2
    /\ Len(taxs) = 1
    /\ Len(cazy_families) = 1

C16_LinkedAtMostOnce ==
    \A t \in LinkerTables :
        \A i, j \in 1..Len(linker[t]) : linker[t][i] = linker[t][j] => i = j

\* the database refused a second row for a link that exists
C16_Witness ==
    /\ integrity_errors > 0
    /\ \E t \in LinkerTables : Len(linker[t]) = 1 /\ statements = 3

(***************************************************************************)
(* sequences_for_proteins_from_dict and get_qualifying_proteins            *)
(* (get_genbank_sequences/from_dict/__init__.py, lines 54-183).            *)
(***************************************************************************)
\* longest list of family annotations of a protein in the CAZy dict
MaxAnnotations == 2

\* the proteins (GenBank accessions) a CAZy dict can hold; "NA" stands for a protein
\* without accession
Proteins == {"Protein1", "Protein2", "NA"}

RECURSIVE AnnotationLists(_)
AnnotationLists(n) ==
    IF n = 0 THEN {<<>>}
    ELSE AnnotationLists(n - 1) \cup
         {Append(l, f) : l \in {x \in AnnotationLists(n - 1) : Len(x) = n - 1},
                         f \in {GH5, PL1}}

\* the CAZy dicts: protein -> list of at least one family annotation
CazyDicts ==
    UNION {[ps -> AnnotationLists(MaxAnnotations) \ {<<>>}] : ps \in SUBSET Proteins}

\* the configurations parse_configuration_for_cazy_dict can return
ConfigData == [classes : {<<>>, <<GH>>}, families : {<<>>, <<GH5>>, <<PL1>>}]

\* str.startswith
StartsWith(str, prefix) ==
    Len(prefix) <= Len(str) /\ SubSeq(str, 1, Len(prefix)) = prefix

\* lines 157, 174: some annotation of the protein is a configured family
InFamilies(dict, config, protein) ==
    \E i \in 1..Len(dict[protein]) : InList(dict[protein][i], config.families)

\* lines 164-166, 177-179: some annotation of the protein starts with a configured class
InClasses(dict, config, protein) ==
    \E c \in 1..Len(config.classes), i \in 1..Len(dict[protein]) :
        StartsWith(dict[protein][i], config.classes[c])

\* lines 138-183: get_qualifying_proteins, the set behind the returned list
GetQualifyingProteins(dict, config) ==
    IF Len(config.classes) = 0 /\ Len(config.families) # 0
    THEN {protein \in DOMAIN dict : InFamilies(dict, config, protein)}
    ELSE IF Len(config.classes) # 0 /\ Len(config.families) = 0
    THEN {protein \in DOMAIN dict : InClasses(dict, config, protein)}
    ELSE {protein \in DOMAIN dict :
             InFamilies(dict, config, protein) \/ InClasses(dict, config, protein)}

InitDict ==
    /\ cazy_dict \in CazyDicts
    /\ config_data \in ConfigData
    /\ protein_list = {}
    /\ ncbi_queries = 0
    /\ dict_pc = "call"
    /\ dict_result = None
    /\ IdleGbk /\ IdleStore /\ IdleEntrez /\ IdleUser /\ IdleOther
    /\ IdleSched /\ IdleSize /\ IdlePdb /\ IdleMain

\* lines 65-71: the dict and the configuration are read, the proteins are selected
SelectProteins ==
    /\ dict_pc = "call"
    /\ protein_list' = GetQualifyingProteins(cazy_dict, config_data)
    /\ dict_pc' = "qualified"
    /\ UNCHANGED <<cazy_dict, config_data, ncbi_queries, dict_result>>
    /\ UNCHANGED notDict

\* lines 73-76: protein_list.remove("NA"), a ValueError is passed over
RemoveNA ==
    /\ dict_pc = "qualified"
    /\ protein_list' = protein_list \ {"NA"}
    /\ dict_pc' = "batches"
    /\ UNCHANGED <<cazy_dict, config_data, ncbi_queries, dict_result>>
    /\ UNCHANGED notDict

\* lines 86-92: the first batch: query_entrez.get_sequences_for_dict(accession_list, args)
\* lacks an argument of get_sequences_for_dict(accessions, date_today, args)
\* (query_entrez.py, line 51): TypeError, which is not the RuntimeError caught
QueryFirstBatch ==
    /\ dict_pc = "batches" /\ protein_list # {}
    /\ dict_pc' = "TypeError"
    /\ UNCHANGED <<cazy_dict, config_data, protein_list, ncbi_queries, dict_result>>
    /\ UNCHANGED notDict

\* lines 86-116: no batch, no individual query: return
ReturnWithoutQuery ==
    /\ dict_pc = "batches" /\ protein_list = {}
    /\ dict_result' = None
    /\ dict_pc' = "returned"
    /\ UNCHANGED <<cazy_dict, config_data, protein_list, ncbi_queries>>
    /\ UNCHANGED notDict

NextDict ==
    \/ SelectProteins
    \/ RemoveNA
    \/ QueryFirstBatch
    \/ ReturnWithoutQuery

SpecDict == InitDict /\ [][NextDict]_vars

(***************************************************************************)
(* C17: an absent class/family restriction means no restriction: when the  *)
(* configuration names neither classes nor families,                       *)
(* get_qualifying_proteins returns every protein of the CAZy dict;         *)
(* otherwise exactly the proteins with an annotation that is a configured  *)
(* family or starts with a configured class abbreviation.                  *)
(***************************************************************************)
C17_Named(protein) ==
    \E i \in 1..Len(cazy_dict[protein]) :
        \/ InList(cazy_dict[protein][i], config_data.families)
        \/ \E c \in 1..Len(config_data.classes) :
               StartsWith(cazy_dict[protein][i], config_data.classes[c])

C17_AbsentMeansUnrestricted ==
    dict_pc = "qualified" =>
        protein_list = IF config_data.classes = <<>> /\ config_data.families = <<>>
                       THEN DOMAIN cazy_dict
                       ELSE {protein \in DOMAIN cazy_dict : C17_Named(protein)}

(***************************************************************************)
(* C19: when no protein qualifies for sequence retrieval (the list is      *)
(* empty once "NA" is removed), sequences_for_proteins_from_dict returns   *)
(* "EXIT" and makes no query to NCBI.                                      *)
(***************************************************************************)
C19_ExitWithoutQuery ==
    (dict_pc \notin {"call", "qualified", "batches"} /\ protein_list = {}) =>
        /\ dict_pc = "returned"
        /\ dict_result = Str(<<"E", "X", "I", "T">>)
        /\ ncbi_queries = 0

(***************************************************************************)
(* entrez_retry (get_genbank_sequences/ncbi/__init__.py, lines 345-382;    *)
(* the same body in ncbi/query_entrez.py, lines 145-182).                  *)
(***************************************************************************)
\* args.retries ranges over 0..MaxEntrezRetries
MaxEntrezRetries == 5
\* calls of entrez_func that are recorded in the history of one run
MaxCalls == 8

\* what a call of the wrapped function can do: raise IOError, raise another
\* exception, return a record, or return None
Outcomes == {"IOError", "Exception", "record", "None"}

InitEntrez ==
    /\ entrez_retries \in 0..MaxEntrezRetries
    /\ entrez_func \in (SUBSET Outcomes) \ {{}}
    /\ entrez_tries = 0                     \* line 360
    /\ record = None
    /\ entrez_calls = 0
    /\ entrez_raised = 0
    /\ entrez_pc = "loop"
    /\ entrez_result = None
    /\ IdleGbk /\ IdleStore /\ IdleDict /\ IdleUser /\ IdleOther
    /\ IdleSched /\ IdleSize /\ IdlePdb /\ IdleMain

\* line 362: while record is None and tries < retries
WhileCondition(rec, t, r) == rec.none /\ t < r

\* one more call in the history, which is recorded up to MaxCalls calls
CountCall(n) == IF n < MaxCalls THEN n + 1 ELSE n

\* line 362: the condition holds and the body of the loop is entered
EnterLoopBody ==
    /\ entrez_pc = "loop"
    /\ WhileCondition(record, entrez_tries, entrez_retries)
    /\ entrez_pc' = "try"
    /\ UNCHANGED <<entrez_retries, entrez_func, entrez_tries, record, entrez_calls,
                   entrez_raised, entrez_result>>
    /\ UNCHANGED notEntrez

\* lines 363-374: entrez_func raises IOError: a warning, a pause, tries += 1
EntrezFuncRaises ==
    /\ entrez_pc = "try"
    /\ "IOError" \in entrez_func
    /\ entrez_tries' = entrez_tries + 1
    /\ entrez_calls' = CountCall(entrez_calls)
    /\ entrez_raised' = CountCall(entrez_raised)
    /\ entrez_pc' = "loop"
    /\ UNCHANGED <<entrez_retries, entrez_func, record, entrez_result>>
    /\ UNCHANGED notEntrez

\* lines 363-366: entrez_func raises an exception that is not an IOError: it leaves
\* entrez_retry
EntrezFuncRaisesOther ==
    /\ entrez_pc = "try"
    /\ "Exception" \in entrez_func
    /\ entrez_calls' = CountCall(entrez_calls)
    /\ entrez_pc' = "raised"
    /\ UNCHANGED <<entrez_retries, entrez_func, entrez_tries, record, entrez_raised,
                   entrez_result>>
    /\ UNCHANGED notEntrez

\* lines 363-364: entrez_func returns a record
EntrezFuncReturnsRecord ==
    /\ entrez_pc = "try"
    /\ "record" \in entrez_func
    /\ record' = Some("record")
    /\ entrez_calls' = CountCall(entrez_calls)
    /\ entrez_pc' = "loop"
    /\ UNCHANGED <<entrez_retries, entrez_func, entrez_tries, entrez_raised,
                   entrez_result>>
    /\ UNCHANGED notEntrez

\* lines 363-364: entrez_func returns None: record stays None and tries is not
\* counted up
EntrezFuncReturnsNone ==
    /\ entrez_pc = "try"
    /\ "None" \in entrez_func
    /\ record' = None
    /\ entrez_calls' = CountCall(entrez_calls)
    /\ entrez_pc' = "loop"
    /\ UNCHANGED <<entrez_retries, entrez_func, entrez_tries, entrez_raised,
                   entrez_result>>
    /\ UNCHANGED notEntrez

\* lines 376-382: the loop is over: return None after an error message, or the record
ReturnRecord ==
    /\ entrez_pc = "loop"
    /\ ~WhileCondition(record, entrez_tries, entrez_retries)
    /\ entrez_result' = record
    /\ entrez_pc' = "returned"
    /\ UNCHANGED <<entrez_retries, entrez_func, entrez_tries, record, entrez_calls,
                   entrez_raised>>
    /\ UNCHANGED notEntrez

NextEntrez ==
    \/ EnterLoopBody
    \/ EntrezFuncRaises
    \/ EntrezFuncRaisesOther
    \/ EntrezFuncReturnsRecord
    \/ EntrezFuncReturnsNone
    \/ ReturnRecord

SpecEntrez == InitEntrez /\ [][NextEntrez]_vars

\* entrez_retry is sequential code: whenever it has a next step it takes it
SpecEntrezLive == SpecEntrez /\ WF_vars(NextEntrez)

(***************************************************************************)
(* C18: entrez_retry with args.retries = N always makes the initial call   *)
(* of the wrapped function and, when calls raise IOError, retries up to N  *)
(* more times (N + 1 calls when every call fails); it returns the first    *)
(* record obtained, and None, without raising, when no call yields one.    *)
(***************************************************************************)
C18_InitialCallAndNRetries ==
    entrez_pc = "returned" =>
        /\ entrez_calls >= 1
        /\ entrez_raised = entrez_calls => entrez_calls = entrez_retries + 1
        /\ entrez_result = record

(***************************************************************************)
(* get_user_accessions (expand/query_sql_db/query_extract_seq.py, lines    *)
(* 274-303): the records of the accessions listed by the user.             *)
(***************************************************************************)
\* the longest list of accessions of the user
MaxAccessions == 3

\* the accessions a user can list
UserAccessions == {"WP_1", "CDF_1", "fake"}

\* what the Genbank table holds for an accession: no record, a record whose sequence
\* is NULL, or a record with a sequence
StoredStates == {"absent", "no_sequence", "sequence"}

AccessionsLists == UNION {[1..n -> UserAccessions] : n \in 0..MaxAccessions}

\* a row of the joined query, whose item[0] is the Genbank record
GenbankRecord(acc) == [type |-> "Genbank", genbank_accession |-> acc]

\* lines 289-295: filter(Genbank.genbank_accession == accession).
\* filter(Genbank.sequence != None).all()
GenbankQuery(db, acc) ==
    IF db[acc] = "sequence" THEN <<GenbankRecord(acc)>> ELSE <<>>

\* the records (with a sequence) of every accession of the list
RecordsOfList(db, list) ==
    {GenbankRecord(list[i]) : i \in {j \in DOMAIN list : db[list[j]] = "sequence"}}

InitUser ==
    /\ accessions_list \in AccessionsLists
    /\ user_session \in [UserAccessions -> StoredStates]
    /\ accession = 1
    /\ all_query_results = <<>>            \* line 286
    /\ user_genbank_query = None
    /\ user_warning = FALSE
    /\ user_pc = "loop"
    /\ user_result = None
    /\ IdleSched /\ IdleSize /\ IdlePdb /\ IdleMain
    /\ IdleGbk /\ IdleStore /\ IdleDict /\ IdleEntrez /\ IdleOther

\* lines 288-297: one pass of the loop: the query of one accession, whose result is
\* appended to all_query_results when it is empty
QueryAccession ==
    /\ user_pc = "loop"
    /\ accession <= Len(accessions_list)
    /\ LET rows == GenbankQuery(user_session, accessions_list[accession])
       IN  /\ user_genbank_query' = Some(rows)
           /\ all_query_results' =
                  IF Len(rows) = 0          \* line 296
                  THEN Append(all_query_results, rows)
                  ELSE all_query_results
    /\ accession' = accession + 1
    /\ UNCHANGED <<accessions_list, user_session, user_warning, user_pc, user_result>>
    /\ UNCHANGED notUser

\* lines 298-303: after the loop the warning is logged when all_query_results is
\* empty, and genbank_query, the result of the last pass, is returned
ReturnGenbankQuery ==
    /\ user_pc = "loop"
    /\ accession > Len(accessions_list)
    /\ ~user_genbank_query.none
    /\ user_warning' = (Len(all_query_results) = 0)
    /\ user_result' = user_genbank_query
    /\ user_pc' = "returned"
    /\ UNCHANGED <<accessions_list, user_session, accession, all_query_results,
                   user_genbank_query>>
    /\ UNCHANGED notUser

\* lines 298-303: with an empty list the loop never binds genbank_query, and the
\* return statement raises UnboundLocalError after the warning
ReturnUnbound ==
    /\ user_pc = "loop"
    /\ accession > Len(accessions_list)
    /\ user_genbank_query.none
    /\ user_warning' = (Len(all_query_results) = 0)
    /\ user_pc' = "UnboundLocalError"
    /\ UNCHANGED <<accessions_list, user_session, accession, all_query_results,
                   user_genbank_query, user_result>>
    /\ UNCHANGED notUser

NextUser == QueryAccession \/ ReturnGenbankQuery \/ ReturnUnbound

SpecUser == InitUser /\ [][NextUser]_vars

\* C20: the list returned for the accessions of the user holds the stored records
\* (with a sequence) of every accession of the list, and is empty when no accession
\* of the list has such a record.
C20_RecordsOfWholeList ==
    user_pc = "returned" =>
        /\ ~user_result.none
        /\ {user_result.val[i] : i \in DOMAIN user_result.val}
              = RecordsOfList(user_session, accessions_list)
        /\ RecordsOfList(user_session, accessions_list) = {} => user_result.val = <<>>

(***************************************************************************)
(* C21: a class whose family-list fetch fails with retries remaining is    *)
(* appended at the tail of the list, and its next fetch attempt comes only *)
(* after every class that was waiting in the list at the moment of the     *)
(* failure has been visited.  The class has no failed family when its      *)
(* fetch fails and gets none before its next visit, so that visit is its   *)
(* next fetch attempt: the claim is that no entry of the class stands in   *)
(* the list before an entry of another class that was waiting.             *)
(***************************************************************************)
\* the step is a failed fetch of class c after which c has attempts left
C21_FailsWithRetriesLeft(c) ==
    /\ pc = "class" /\ cazy_classes # <<>> /\ Head(cazy_classes) = c
    /\ tries' = [tries EXCEPT ![c] = @ + 1]
    /\ ~ClassCeilingReached(tries'[c])

\* every other class that waits in list q is visited before the first visit of c
C21_OthersFirst(q, c) ==
    \A i \in 1..Len(q) :
        q[i] = c => \A j \in 1..Len(q) : q[j] # c => \E k \in 1..i : q[k] = q[j]

C21_RequeuedBehindTheWaiting ==
    [][\A c \in Classes :
          C21_FailsWithRetriesLeft(c) =>
              /\ cazy_classes' = Append(Tail(cazy_classes), c)
              /\ C21_OthersFirst(Tail(cazy_classes), c)]_vars

(***************************************************************************)
(* C22: at every point of get_cazy_data a class occurs at most once among  *)
(* the entries of the list the loop has not reached: one pass over the     *)
(* families of a class appends the class at most once.                     *)
(***************************************************************************)
\* the number of entries of class c in list q
C22_Occurrences(q, c) == Cardinality({i \in 1..Len(q) : q[i] = c})

C22_QueuedAtMostOnce ==
    \A c \in Classes : C22_Occurrences(cazy_classes, c) <= 1

(***************************************************************************)
(* C23: within one run a family whose scrape completed without a retryable *)
(* failure is never scraped again, and the family list of a class is       *)
(* fetched successfully at most once.                                      *)
(***************************************************************************)
C23_NoRepeatedWork ==
    /\ [](\A c \in Classes : fetched_ok[c] <= 1)
    /\ [][\A f \in Families : clean_scrapes[f] > 0 => scrapes'[f] = scrapes[f]]_vars

(***************************************************************************)
(* C24: with subfamily retrieval enabled and a configuration that names a  *)
(* subfamily (GH5_1) without naming its parent family, the subfamily is    *)
(* scraped in the pass over its class.                                     *)
(***************************************************************************)
C24_NamedSubfamilyScraped ==
    (/\ pc = "families" /\ subfamilies /\ ~Unrestricted(cazy_class)
     /\ InList(GH5_1, config_dict.val[cazy_class].val)
     /\ ~InList(GH5, config_dict.val[cazy_class].val))
    => \A i \in 1..(idx - 1) : class_families[i] = GH5_1 => GH5_1 \in scraped_in_pass

(***************************************************************************)
(* C25: entrez_retry terminates for every behaviour of the wrapped         *)
(* function and every args.retries >= 0, a function that returns None      *)
(* without raising included.                                               *)
(***************************************************************************)
C25_EntrezRetryTerminates == <>(entrez_pc \in {"returned", "raised"})

(***************************************************************************)
(* C26: in sequences_for_proteins_from_dict an error raised while one      *)
(* batch of accessions is queried never prevents the remaining batches     *)
(* from being queried: with at least one protein to query, the function    *)
(* ends by returning, after the batches (and then the accessions of the    *)
(* failed batches, one by one) were queried.                               *)
(***************************************************************************)
C26_BatchErrorsContained ==
    (dict_pc \notin {"call", "qualified", "batches"} /\ protein_list # {}) =>
        /\ dict_pc = "returned"
        /\ ncbi_queries >= 1

(***************************************************************************)
(* get_prim_genbank_acc_for_update and get_all_genbank_acc_for_update      *)
(* (get_genbank_sequences/from_sql_db/query_sql_db.py, lines 308-374 and   *)
(* 377-443): the accessions whose sequence is to be retrieved or updated.  *)
(***************************************************************************)
\* the accessions of the Genbank table
GbkAccessions == {"WP_1", "CDF_1", "XYZ_1"}

\* what the database and NCBI hold for an accession: no record; a record without
\* sequence; a record whose sequence is as recent as NCBI's; a record whose sequence
\* NCBI has since updated; a record whose accession NCBI rejects (RuntimeError)
RecordStates == {"absent", "no_sequence", "current", "outdated", "invalid"}

\* the functions defined in ncbi/query_entrez.py (lines 51 and 145)
QueryEntrezFunctions == {"get_sequences_for_dict", "entrez_retry"}

\* the attributes of the module logging that the functions look up
LoggingFunctions == {"getLogger"}

InitUpd ==
    /\ upd_function \in {"prim", "all"}
    /\ upd_records \in [GbkAccessions -> RecordStates]
    /\ genbank_query_no_seq = {}
    /\ genbank_query_with_seq = {}
    /\ upd_pc = "call"
    /\ upd_result = {}
    /\ IdleSched /\ IdleSize /\ IdlePdb /\ IdleMain
    /\ IdleGbk /\ IdleStore /\ IdleDict /\ IdleEntrez /\ IdleUser /\ IdleFam /\ IdleAdd
    /\ IdleOpen

\* line 387: get_all_genbank_acc_for_update opens with logging.get_logger(__name__),
\* a name the module logging does not have
GetLoggerFails ==
    /\ upd_pc = "call" /\ upd_function = "all"
    /\ "get_logger" \notin LoggingFunctions
    /\ upd_pc' = "AttributeError"
    /\ UNCHANGED <<upd_function, upd_records, genbank_query_no_seq,
                   genbank_query_with_seq, upd_result>>
    /\ UNCHANGED notUpd

\* lines 318-335: the query, and the separation of the records with and without
\* sequence
SeparateRecords ==
    /\ upd_pc = "call" /\ upd_function = "prim"
    /\ genbank_query_no_seq' = {a \in GbkAccessions : upd_records[a] = "no_sequence"}
    /\ genbank_query_with_seq' =
          {a \in GbkAccessions : upd_records[a] \in {"current", "outdated", "invalid"}}
    /\ upd_pc' = "split"
    /\ UNCHANGED <<upd_function, upd_records, upd_result>>
    /\ UNCHANGED notUpd

\* lines 340-346: the first batch: query_entrez.check_ncbi_seq_data is looked up in a
\* module that does not define it: AttributeError, which is not the RuntimeError
\* caught in line 349
CheckFirstBatch ==
    /\ upd_pc = "split" /\ genbank_query_with_seq # {}
    /\ "check_ncbi_seq_data" \notin QueryEntrezFunctions
    /\ upd_pc' = "AttributeError"
    /\ UNCHANGED <<upd_function, upd_records, genbank_query_no_seq,
                   genbank_query_with_seq, upd_result>>
    /\ UNCHANGED notUpd

\* lines 340-374: no record with a sequence: no batch, no individual query; the
\* records without sequence are returned
ReturnNoSeq ==
    /\ upd_pc = "split" /\ genbank_query_with_seq = {}
    /\ upd_result' = genbank_query_no_seq
    /\ upd_pc' = "returned"
    /\ UNCHANGED <<upd_function, upd_records, genbank_query_no_seq,
                   genbank_query_with_seq>>
    /\ UNCHANGED notUpd

NextUpd == GetLoggerFails \/ SeparateRecords \/ CheckFirstBatch \/ ReturnNoSeq

SpecUpd == InitUpd /\ [][NextUpd]_vars

\* C27: when the function has ended it has returned, and no accession whose sequence
\* needs updating is lost because another accession of its batch was invalid: the
\* result holds every record without sequence and every outdated one.
C27_OutdatedNotLost ==
    upd_pc \notin {"idle", "call", "split"} =>
        /\ upd_pc = "returned"
        /\ \A a \in GbkAccessions :
              upd_records[a] \in {"no_sequence", "outdated"} => a \in upd_result

(***************************************************************************)
(* The class/family query functions: get_pdb_acc_from_clss_fams            *)
(* (get_pdb_structures.py, lines 325-391) and                              *)
(* get_prim_gnbk_acc_from_clss_fam_with_seq (query_sql_db/                 *)
(* query_extract_seq.py, lines 59-145).                                    *)
(***************************************************************************)
\* longest list of classes, and of families, a configuration names
MaxNamed == 2

\* the class names of a configuration: the name ends with the abbreviation, in the
\* plural, between brackets, as in "Glycoside Hydrolases (GHs)"
GHs == <<"(", "G", "H", "s", ")">>
PLs == <<"(", "P", "L", "s", ")">>

\* the records of the database: the family and subfamily each is catalogued under
FamRecords ==
    {[acc |-> "A", family |-> GH5, subfamily |-> None],
     [acc |-> "B", family |-> GH5, subfamily |-> Some(GH5_1)],
     [acc |-> "C", family |-> PL1, subfamily |-> None]}

NamedLists(names) == UNION {[1..n -> names] : n \in 0..MaxNamed}

\* str.find(ch): index (from 0) of the first ch, or -1
RECURSIVE FindChar(_, _, _)
FindChar(str, ch, i) ==
    IF i > Len(str) THEN -1
    ELSE IF str[i] = ch THEN i - 1
    ELSE FindChar(str, ch, i + 1)

\* str[a:b] of Python for a >= 0, where a negative b counts from the end
Slice(str, a, b) ==
    LET stop == IF b < 0 THEN Len(str) + b ELSE b
    IN  IF stop <= a THEN <<>> ELSE SubSeq(str, a + 1, stop)

\* lines 341 / 79: cazy_class[(find("(") + 1):(find(")") - 1)]
ClassAbbreviation(cazy_class_name) ==
    Slice(cazy_class_name, FindChar(cazy_class_name, "(", 1) + 1,
          FindChar(cazy_class_name, ")", 1) - 1)

Digits == {"0", "1", "2", "3", "4", "5", "6", "7", "8", "9"}

\* lines 347 / 85: family.regexp(abbreviation followed by digits), a search
RegexpMatches(family, abbreviation) ==
    \E i \in 1..Len(family) :
        /\ i + Len(abbreviation) <= Len(family)
        /\ SubSeq(family, i, i + Len(abbreviation) - 1) = abbreviation
        /\ family[i + Len(abbreviation)] \in Digits

\* lines 344-357 / 82-103: the records of the CAZymes of a class
ClassQuery(cazy_class_name) ==
    {r.acc : r \in {x \in FamRecords :
                       RegexpMatches(x.family, ClassAbbreviation(cazy_class_name))}}

\* lines 368-389 / 114-143: the records of the CAZymes of a family or subfamily
FamilyQuery(family) ==
    IF FindUnderscore(family) # -1
    THEN {r.acc : r \in {x \in FamRecords : x.subfamily = Some(family)}}
    ELSE {r.acc : r \in {x \in FamRecords : x.family = family}}

\* pdb_query_class = [] (line 333) and genbank_query_class = None (line 69)
EmptyQuery(function) == IF function = "pdb" THEN Some({}) ELSE None

InitFam ==
    /\ fam_function \in {"pdb", "genbank"}
    /\ fam_config \in [classes : NamedLists({GHs, PLs}),
                        families : NamedLists({GH5, GH5_1, PL1})]
    /\ fam_i = 1
    /\ query_class = EmptyQuery(fam_function)
    /\ query_family = EmptyQuery(fam_function)
    /\ fam_pc = "classes"
    /\ fam_result = None
    /\ IdleSched /\ IdleSize /\ IdlePdb /\ IdleMain
    /\ IdleGbk /\ IdleStore /\ IdleDict /\ IdleEntrez /\ IdleUser /\ IdleUpd /\ IdleAdd
    /\ IdleOpen

\* lines 340-357 / 78-103: one pass of the loop over the classes: the result of the
\* query is assigned to pdb_query_class / genbank_query_class
QueryOneClass ==
    /\ fam_pc = "classes" /\ fam_i <= Len(fam_config.classes)
    /\ query_class' = Some(ClassQuery(fam_config.classes[fam_i]))
    /\ fam_i' = fam_i + 1
    /\ UNCHANGED <<fam_function, fam_config, query_family, fam_pc, fam_result>>
    /\ UNCHANGED notFam

\* lines 336, 340 / 72, 78: no class, or no class left
EndOfClassLoop ==
    /\ fam_pc = "classes" /\ fam_i > Len(fam_config.classes)
    /\ fam_pc' = "families"
    /\ fam_i' = 1
    /\ UNCHANGED <<fam_function, fam_config, query_class, query_family, fam_result>>
    /\ UNCHANGED notFam

\* lines 366-389 / 112-143: one pass of the loop over the families: the result of
\* the query is assigned to pdb_query_family / genbank_query_family
QueryOneFamily ==
    /\ fam_pc = "families" /\ fam_i <= Len(fam_config.families)
    /\ query_family' = Some(FamilyQuery(fam_config.families[fam_i]))
    /\ fam_i' = fam_i + 1
    /\ UNCHANGED <<fam_function, fam_config, query_class, fam_pc, fam_result>>
    /\ UNCHANGED notFam

\* lines 390-391: return pdb_query_class + pdb_query_family;
\* line 145: return genbank_query_class, genbank_query_family
ReturnQueryResults ==
    /\ fam_pc = "families" /\ fam_i > Len(fam_config.families)
    /\ fam_result' =
          IF fam_function = "pdb"
          THEN Some(query_class.val \cup query_family.val)
          ELSE Some([class |-> query_class, family |-> query_family])
    /\ fam_pc' = "returned"
    /\ UNCHANGED <<fam_function, fam_config, fam_i, query_class, query_family>>
    /\ UNCHANGED notFam

NextFam == QueryOneClass \/ EndOfClassLoop \/ QueryOneFamily \/ ReturnQueryResults

SpecFam == InitFam /\ [][NextFam]_vars

(***************************************************************************)
(* C28: for a configuration naming several classes and/or families, the    *)
(* class/family query functions return the records of every named class    *)
(* and every named family (the union over all of them), and an empty       *)
(* result, not an error or None, for an axis with nothing configured.      *)
(***************************************************************************)
\* the records of the CAZymes of the class that a class name of the configuration
\* stands for
C28_RecordsOfClass(cazy_class_name) ==
    {r.acc : r \in {x \in FamRecords :
                       SubSeq(x.family, 1, 2) = SubSeq(cazy_class_name, 2, 3)}}

C28_AllClasses ==
    UNION {C28_RecordsOfClass(fam_config.classes[i]) : i \in DOMAIN fam_config.classes}

C28_AllFamilies ==
    UNION {FamilyQuery(fam_config.families[i]) : i \in DOMAIN fam_config.families}

C28_UnionOverNamed ==
    fam_pc = "returned" =>
        IF fam_function = "pdb"
        THEN fam_result = Some(C28_AllClasses \cup C28_AllFamilies)
        ELSE fam_result = Some([class |-> Some(C28_AllClasses),
                                family |-> Some(C28_AllFamilies)])

(***************************************************************************)
(* get_sequences_add_to_db (get_genbank_sequences/ncbi/__init__.py, lines  *)
(* 242-342): the sequences NCBI returns for a batch are written to the     *)
(* table genbanks (sql_orm.Genbank, lines 277-300, where genbank_accession *)
(* is a plain column: several rows can hold the same accession).           *)
(***************************************************************************)
\* most rows of the table genbanks
MaxGenbankRows == 3
\* longest list accessions, and most records NCBI returns
MaxBatch == 2

BatchAccessions == {"WP_1", "CDF_1"}

\* a row of genbanks: never retrieved, or retrieved on an earlier day
GenbankTableRows ==
    [genbank_accession : BatchAccessions,
     sequence : {None, Some("old")},
     seq_update_date : {None}]
    \cup
    [genbank_accession : BatchAccessions,
     sequence : {Some("old")},
     seq_update_date : {Some("old")}]

\* record.id of a record NCBI returns: an id that holds an accession, or one in
\* which no accession is found (lines 284-304)
RecordIds == BatchAccessions \cup {"no accession"}

\* str(record.seq) and date_today
RetrievedSequence == "new"
DateToday == "today"

\* lines 316-317: session.query(Genbank).filter(... == temp_accession).first()
FirstGenbank(table, temp_accession) ==
    First({k \in 1..Len(table) : table[k].genbank_accession = temp_accession})

\* line 331: list.remove(x): the first occurrence of x is taken out
RECURSIVE Remove(_, _)
Remove(list, x) ==
    IF list = <<>> THEN <<>>
    ELSE IF Head(list) = x THEN Tail(list)
    ELSE <<Head(list)>> \o Remove(Tail(list), x)

InitAdd ==
    /\ add_table \in UNION {[1..n -> GenbankTableRows] : n \in 1..MaxGenbankRows}
    /\ add_accessions \in UNION {[1..n -> BatchAccessions] : n \in 1..MaxBatch}
    /\ \A i \in DOMAIN add_accessions :
          \E k \in DOMAIN add_table :
              add_table[k].genbank_accession = add_accessions[i]
    /\ ncbi_records \in UNION {[1..n -> RecordIds] : n \in 0..MaxBatch}
    /\ add_i = 1
    /\ add_pc = "loop"
    /\ add_entry = [table |-> add_table, accessions |-> add_accessions]
    /\ IdleSched /\ IdleSize /\ IdlePdb /\ IdleMain
    /\ IdleGbk /\ IdleStore /\ IdleDict /\ IdleEntrez /\ IdleUser
    /\ IdleUpd /\ IdleFam /\ IdleOpen

\* lines 277-313: the record is passed over: no accession in its id, or an accession
\* that is not in the list
SkipRecord ==
    /\ add_pc = "loop" /\ add_i <= Len(ncbi_records)
    /\ ~InList(ncbi_records[add_i], add_accessions)
    /\ add_i' = add_i + 1
    /\ UNCHANGED <<add_table, add_accessions, ncbi_records, add_pc, add_entry>>
    /\ UNCHANGED notAdd

\* lines 277-331: the sequence and the date are written to the row that first()
\* returns, and the accession is taken out of the list
AddSequence ==
    /\ add_pc = "loop" /\ add_i <= Len(ncbi_records)
    /\ InList(ncbi_records[add_i], add_accessions)
    /\ add_table' =
          [add_table EXCEPT ![FirstGenbank(add_table, ncbi_records[add_i])] =
              [@ EXCEPT !.sequence = Some(RetrievedSequence),
                        !.seq_update_date = Some(DateToday)]]
    /\ add_accessions' = Remove(add_accessions, ncbi_records[add_i])
    /\ add_i' = add_i + 1
    /\ UNCHANGED <<ncbi_records, add_pc, add_entry>>
    /\ UNCHANGED notAdd

\* lines 333-342: the records are used up: the accessions left are logged
ReturnAfterRecords ==
    /\ add_pc = "loop" /\ add_i > Len(ncbi_records)
    /\ add_pc' = "returned"
    /\ UNCHANGED <<add_table, add_accessions, ncbi_records, add_i, add_entry>>
    /\ UNCHANGED notAdd

NextAdd == SkipRecord \/ AddSequence \/ ReturnAfterRecords

SpecAdd == InitAdd /\ [][NextAdd]_vars

(***************************************************************************)
(* C29: after get_sequences_add_to_db every row of genbanks whose          *)
(* accession was in the batch and was returned by NCBI holds the retrieved *)
(* sequence and date_today, also when several rows hold the same           *)
(* accession; every other row is unchanged.                                *)
(***************************************************************************)
C29_Retrieved(acc) ==
    InList(acc, add_entry.accessions) /\ InList(acc, ncbi_records)

C29_EveryRowUpdated ==
    add_pc = "returned" =>
        \A k \in DOMAIN add_table :
            IF C29_Retrieved(add_table[k].genbank_accession)
            THEN /\ add_table[k].sequence = Some(RetrievedSequence)
                 /\ add_table[k].seq_update_date = Some(DateToday)
            ELSE add_table[k] = add_entry.table[k]

(***************************************************************************)
(* open_db_session (scraper/cazy_webscraper.py, lines 243-333).            *)
(***************************************************************************)
\* args as open_db_session reads it, with what exists at the target paths
OpenArgs ==
    [database : BOOLEAN,            \* args.database is not None
     cazy_dict : BOOLEAN,           \* args.cazy_dict is not None
     cazy_dict_exists : BOOLEAN,    \* (args.cazy_dict).exists()
     force : BOOLEAN,               \* args.force
     database_dir_stdout : BOOLEAN, \* args.database_dir is sys.stdout
     database_file : BOOLEAN,       \* args.database_file is given
     db_path_exists : BOOLEAN,      \* db_path.exists()
     output_stdout : BOOLEAN]       \* args.output is sys.stdout

Outcome(how, what) == [pc |-> how, session |-> what]

\* sql_orm.py, lines 414-443: build_db when args.database is None
BuildDb(args) ==
    IF args.output_stdout
    \* lines 427-430: os.getcwd() is a str, and str / str raises
    THEN Outcome("TypeError", None)
    ELSE Outcome("returned", Some("database session"))         \* lines 432-443

\* lines 252-333: how a call of open_db_session ends, and the session it returns
OpenDbSessionOutcome(args) ==
    IF args.database
    THEN Outcome("returned", Some("database session"))         \* lines 253-254
    ELSE IF args.cazy_dict
    THEN IF args.cazy_dict_exists
         THEN IF args.force
              \* lines 261-266: a warning only, session is not bound: line 333 raises
              THEN Outcome("UnboundLocalError", None)
              ELSE Outcome("exit 1", None)                      \* lines 267-274
         ELSE Outcome("returned", Some("dict"))                 \* lines 276-285
    ELSE IF args.database_dir_stdout
    THEN BuildDb(args)                                         \* lines 329-331
    ELSE IF ~args.database_file
    \* line 292: time_stamp is a local name of main, unknown in open_db_session
    THEN Outcome("NameError", None)
    ELSE IF args.db_path_exists
    THEN IF args.force
         THEN BuildDb(args)                                    \* lines 300-305
         ELSE Outcome("exit 1", None)                           \* lines 307-313
    ELSE BuildDb(args)                                         \* lines 315-327

InitOpen ==
    /\ open_args \in OpenArgs
    /\ open_pc = "call"
    /\ open_session = None
    /\ IdleSched /\ IdleSize /\ IdlePdb /\ IdleMain
    /\ IdleGbk /\ IdleStore /\ IdleDict /\ IdleEntrez /\ IdleUser
    /\ IdleUpd /\ IdleFam /\ IdleAdd

\* lines 243-333: the call of open_db_session
CallOpenDbSession ==
    /\ open_pc = "call"
    /\ open_pc' = OpenDbSessionOutcome(open_args).pc
    /\ open_session' = OpenDbSessionOutcome(open_args).session
    /\ UNCHANGED open_args
    /\ UNCHANGED notOpen

NextOpen == CallOpenDbSession

SpecOpen == InitOpen /\ [][NextOpen]_vars

(***************************************************************************)
(* C30: open_db_session never lets an existing output target be            *)
(* overwritten without --force: when the target database file or CAZy-dict *)
(* path exists and force is not set it ends with exit status 1; in every   *)
(* other case it returns a usable session (a database session or an empty  *)
(* dict).                                                                  *)
(***************************************************************************)
\* the output target of the call exists already
C30_TargetExists ==
    /\ ~open_args.database
    /\ IF open_args.cazy_dict
       THEN open_args.cazy_dict_exists
       ELSE ~open_args.database_dir_stdout /\ open_args.db_path_exists

C30_ExitOrUsableSession ==
    open_pc \notin {"idle", "call"} =>
        IF C30_TargetExists /\ ~open_args.force
        THEN open_pc = "exit 1"
        ELSE open_pc = "returned" /\ ~open_session.none

====
